---- MODULE Spec2Model ----
(***************************************************************************)
(* Xiangxin AI guardrails client (xiangxinai-python): the request         *)
(* orchestration and resilience layer of src/xiangxinai/client.py.        *)
(*                                                                         *)
(* Two clients are modelled side by side, XiangxinAI ("sync") and          *)
(* AsyncXiangxinAI ("async"), both constructed with the same max_retries   *)
(* and given the same call.  The server is a script of per-attempt         *)
(* outcomes: the n-th HTTP attempt of either client receives server[n],    *)
(* so the two retry engines are driven by the same outcome sequence.       *)
(*                                                                         *)
(* Text is a sequence of one-character strings; None is a distinct value.  *)
(* Messages of failures are sequences of text fragments.                   *)
(***************************************************************************)
EXTENDS Integers, Sequences, FiniteSets, TLC

VARIABLES
    max_retries,  \* self.max_retries of both clients
    call,         \* the facade call under way: operation and arguments
    outcomes,     \* which outcomes the server and the network of this run can produce:
                  \* "core", "all", "brief" or "retry"
    server,       \* outcomes handed out so far, one per HTTP attempt
    pc,           \* per client: "idle", "running" (inside _make_request), "done"
    request,      \* per client: method, endpoint and data given to _make_request
    attempt,      \* per client: the loop variable of _make_request
    attempts,     \* per client: HTTP requests issued (session.get / session.post)
    sleeps,       \* per client: for each HTTP attempt, the durations slept in it, in order
    result,       \* per client: what the call returned or raised
    session,      \* per client: self._session -- "none", "open" or "closed"
    io,           \* per client: the files opened and the urls fetched for images, in order
    lifecycle,    \* per client: the sessions made ("create") and the releases asked
                  \* for ("release": close, __aexit__, __exit__), in order
    task,         \* per concurrent call on one AsyncXiangxinAI: its position, its
                  \* local attempt counter, the outcomes it met, its sleeps, its result
    view          \* what a derived view of a GuardrailResponse returned

vars == <<max_retries, call, outcomes, server, pc, request, attempt, attempts, sleeps, result,
          session, io, lifecycle, task, view>>

Variants == {"sync", "async"}

(***************************************************************************)
(* Bounds                                                                  *)
(***************************************************************************)
MaxRetries == 3
FacadeRetries == 1
MaxLen == 2

(***************************************************************************)
(* Values                                                                  *)
(***************************************************************************)
None == [none |-> TRUE, chars |-> <<>>]

Str(s) == [none |-> FALSE, chars |-> s]

\* Python truthiness of an Optional[str]
Truthy(x) == ~x.none /\ x.chars # <<>>

Chars == {" ", "a"}

RECURSIVE lstrip(_)
lstrip(s) == IF s # <<>> /\ Head(s) = " " THEN lstrip(Tail(s)) ELSE s

RECURSIVE rstrip(_)
rstrip(s) == IF s # <<>> /\ s[Len(s)] = " " THEN rstrip(SubSeq(s, 1, Len(s) - 1)) ELSE s

\* str.strip()
strip(s) == rstrip(lstrip(s))

RECURSIVE Pow2(_)
Pow2(n) == IF n <= 0 THEN 1 ELSE 2 * Pow2(n - 1)

(***************************************************************************)
(* Exceptions (exceptions.py) and the classes the transports raise         *)
(***************************************************************************)
SDKErrors == {"XiangxinAIError", "AuthenticationError", "RateLimitError",
              "ValidationError", "NetworkError", "ServerError"}

\* issubclass(cls, XiangxinAIError)
IsSDKError(cls) == cls \in SDKErrors

Exc(cls, msg) == [cls |-> cls, msg |-> msg]

NoExc == Exc("", <<>>)

NoValue == [type |-> "NoValue"]

PyNone == [type |-> "NoneType"]

(***************************************************************************)
(* The server and the network: what one HTTP attempt can meet              *)
(***************************************************************************)
\* GuardrailResponse's fields without a default (models.py)
RequiredFields == {"id", "result", "overall_risk_level", "suggest_action"}

\* A well-formed detection body
GoodBody ==
    [shape |-> "dict", text |-> <<"{...}">>,
     value |-> [id |-> "guardrails-1",
                result |-> [compliance |-> [risk_level |-> "high_risk", categories |-> <<"A">>],
                            security |-> [risk_level |-> "no_risk", categories |-> <<>>]],
                overall_risk_level |-> "high_risk",
                suggest_action |-> "reject"]]

\* A JSON object that lacks required GuardrailResponse fields
PartialBody == [shape |-> "dict", text |-> <<"{id}">>, value |-> [id |-> "guardrails-1"]]

\* An error body with a detail field
DetailBody == [shape |-> "dict", text |-> <<"{detail}">>, value |-> [detail |-> <<"bad input">>]]

\* An error body that is a JSON object without a detail field
EmptyBody == [shape |-> "dict", text |-> <<"{}">>, value |-> [other |-> <<"x">>]]

\* A body that is no JSON at all: response.json() raises
TextBody == [shape |-> "invalid", text |-> <<"<html>">>, value |-> [other |-> <<"x">>]]

NoBody == [shape |-> "none", text |-> <<>>, value |-> [other |-> <<"x">>]]

Response(status, body) == [kind |-> "response", status |-> status, body |-> body]

TransportFailure(kind) == [kind |-> kind, status |-> 0, body |-> NoBody]

\* A 200 body that is JSON but no object
ListBody == [shape |-> "list", text |-> <<"[]">>, value |-> [other |-> <<"x">>]]

\* Statuses other than 200, 401, 422 and 429 that the server answers with
OtherStatuses == {500}

\* One outcome for every way an attempt is classified
CoreOutcomes ==
    {Response(200, GoodBody), Response(200, PartialBody), Response(200, ListBody),
     Response(401, DetailBody),
     Response(422, DetailBody), Response(422, EmptyBody), Response(422, TextBody),
     Response(429, DetailBody)}
    \cup {Response(st, DetailBody) : st \in OtherStatuses}
    \cup
    {TransportFailure("timeout"), TransportFailure("connection"),
     TransportFailure("unexpected")}

\* The core outcomes and the same statuses with bodies that are no JSON
Outcomes ==
    CoreOutcomes \cup {Response(200, TextBody)}
    \cup {Response(st, TextBody) : st \in OtherStatuses}

\* A success and one retryable failure: enough for the calls whose subject is
\* the request that is built, not the way the server answers
BriefOutcomes == {Response(200, GoodBody), TransportFailure("timeout")}

\* A success, the rate limit, and two failures that are retried
RetryOutcomes ==
    {Response(200, GoodBody), Response(429, DetailBody),
     TransportFailure("timeout"), TransportFailure("unexpected")}

\* str(status_code) for the statuses the server answers with
StatusText(status) ==
    CASE status = 200 -> "200" [] status = 401 -> "401" [] status = 422 -> "422"
      [] status = 429 -> "429" [] status = 500 -> "500" [] status = 501 -> "501"
      [] OTHER -> "other"

\* The exception the blocking transport (requests) raises for a failed attempt
RequestsError(kind) ==
    CASE kind = "timeout" -> Exc("requests.Timeout", <<"timed out">>)
      [] kind = "connection" -> Exc("requests.ConnectionError", <<"connection refused">>)
      [] OTHER -> Exc("requests.RequestException", <<"too many redirects">>)

\* The exception the cooperative transport (aiohttp) raises for a failed attempt
AiohttpError(kind) ==
    CASE kind = "timeout" -> Exc("asyncio.TimeoutError", <<>>)
      [] kind = "connection" -> Exc("aiohttp.ClientError", <<"connection refused">>)
      [] kind = "closed" -> Exc("RuntimeError", <<"Session is closed">>)
      [] OTHER -> Exc("RuntimeError", <<"unexpected">>)

\* response.json() on a body that is no JSON
JSONDecodeError == Exc("JSONDecodeError", <<"Expecting value">>)

\* What pydantic raises when required fields are missing
PydanticError == Exc("pydantic.ValidationError", <<"field required">>)

(***************************************************************************)
(* One iteration of the retry loop.  Its effect: the sleeps it performed   *)
(* and how control leaves it (return, raise, or continue with the next     *)
(* attempt).                                                               *)
(***************************************************************************)
Effect(ctl, sl, value, exc) == [ctl |-> ctl, sleeps |-> sl, value |-> value, exc |-> exc]

Return(value) == Effect("return", <<>>, value, NoExc)

Raise(exc) == Effect("raise", <<>>, NoValue, exc)

Continue(sl) == Effect("continue", sl, NoValue, NoExc)

DetectionEndpoints == {"/guardrails", "/guardrails/input", "/guardrails/output"}

\* A typed response built without looking for the required fields
GuardrailResponse_unchecked(data) == Return([type |-> "GuardrailResponse", fields |-> data])

\* GuardrailResponse(**result_data): the typed response, or pydantic's error
GuardrailResponse(data) ==
    IF RequiredFields \subseteq DOMAIN data
    THEN Return([type |-> "GuardrailResponse",
                 id |-> data.id,
                 result |-> data.result,
                 overall_risk_level |-> data.overall_risk_level,
                 suggest_action |-> data.suggest_action,
                 suggest_answer |-> IF "suggest_answer" \in DOMAIN data
                                    THEN data.suggest_answer ELSE None,
                 score |-> IF "score" \in DOMAIN data THEN data.score ELSE None])
    ELSE Raise(PydanticError)

\* The HTTP 200 branch, the same text in both clients
OnStatus200(endpoint, body) ==
    IF body.shape = "invalid" THEN Raise(JSONDecodeError)
    ELSE IF endpoint \in DetectionEndpoints /\ body.shape = "dict"
         THEN GuardrailResponse(body.value)
         ELSE Return([type |-> "json", shape |-> body.shape, value |-> body.value])

\* The HTTP 401 branch
OnStatus401 == Raise(Exc("AuthenticationError", <<"Invalid API key">>))

\* The HTTP 422 branch: response.json().get("detail", "Validation error")
OnStatus422(body) ==
    IF body.shape = "invalid" THEN Raise(JSONDecodeError)
    ELSE IF body.shape # "dict" THEN Raise(Exc("AttributeError", <<"no attribute get">>))
    ELSE Raise(Exc("ValidationError",
                   <<"Validation error: ">>
                   \o (IF "detail" \in DOMAIN body.value
                       THEN body.value.detail ELSE <<"Validation error">>)))

\* The last branch: any other status
OnOtherStatus(status, body) ==
    LET error_msg == IF body.shape = "dict" /\ "detail" \in DOMAIN body.value
                     THEN body.value.detail ELSE body.text
    IN  Raise(Exc("XiangxinAIError",
                  <<"API request failed with status ", StatusText(status), ": ">> \o error_msg))

\* A backoff that grows by a fixed step instead of doubling
wait_time_linear(a) == 2 * a + 2

\* wait_time = (2 ** attempt) + 1
wait_time(a) == Pow2(a) + 1

\* A 429 branch whose backoff counts from the first 429 and not from the first attempt
XiangxinAI_OnStatus429_first(mr, a) ==
    IF a < mr THEN Continue(<<wait_time(0)>>)
    ELSE Raise(Exc("RateLimitError", <<"Rate limit exceeded">>))

\* The HTTP 429 branch of XiangxinAI._make_request
XiangxinAI_OnStatus429(mr, a) ==
    IF a < mr THEN Continue(<<wait_time(a)>>)
    ELSE Raise(Exc("RateLimitError", <<"Rate limit exceeded">>))

\* The try block of XiangxinAI._make_request
XiangxinAI_try(mr, a, req, o) ==
    IF req.method \notin {"GET", "POST"}
    THEN Raise(Exc("XiangxinAIError", <<"Unsupported HTTP method: ", req.method>>))
    ELSE IF o.kind # "response" THEN Raise(RequestsError(o.kind))
    ELSE IF o.status = 200 THEN OnStatus200(req.endpoint, o.body)
    ELSE IF o.status = 401 THEN OnStatus401
    ELSE IF o.status = 422 THEN OnStatus422(o.body)
    ELSE IF o.status = 429 THEN XiangxinAI_OnStatus429(mr, a)
    ELSE OnOtherStatus(o.status, o.body)

\* A retry that backs off exponentially as the 429 branch does
RetryOrRaise_backoff(mr, a, exc) ==
    IF a < mr THEN Continue(<<wait_time(a)>>) ELSE Raise(exc)

\* A retry that forgets to look at the budget
RetryOrRaise_always(mr, a, exc) == Continue(<<1>>)

\* if attempt < self.max_retries: sleep(1); continue -- else raise the wrapped failure
RetryOrRaise(mr, a, exc) ==
    IF a < mr THEN Continue(<<1>>) ELSE Raise(exc)

\* The third except clause without AuthenticationError
NotRetried_noauth == {"ValidationError", "RateLimitError"}

\* The classes the third except clause lets through unchanged
NotRetried == {"AuthenticationError", "ValidationError", "RateLimitError"}

\* The except clauses of XiangxinAI._make_request, in their order
XiangxinAI_except(mr, a, e) ==
    IF e.cls = "requests.Timeout"
    THEN RetryOrRaise(mr, a, Exc("XiangxinAIError", <<"Request timeout">>))
    ELSE IF e.cls = "requests.ConnectionError"
    THEN RetryOrRaise(mr, a, Exc("XiangxinAIError", <<"Connection error">>))
    ELSE IF e.cls \in NotRetried
    THEN Raise(e)
    ELSE RetryOrRaise(mr, a, Exc("XiangxinAIError", <<"Unexpected error: ">> \o e.msg))

\* One iteration of the loop of XiangxinAI._make_request
XiangxinAI_iteration(mr, a, req, o) ==
    LET t == XiangxinAI_try(mr, a, req, o)
    IN  IF t.ctl = "raise" THEN XiangxinAI_except(mr, a, t.exc) ELSE t

\* The HTTP 429 branch of AsyncXiangxinAI._handle_response: it sleeps, then raises
AsyncXiangxinAI_OnStatus429 ==
    Effect("raise", <<wait_time(0)>>, NoValue, Exc("RateLimitError", <<"Rate limit exceeded">>))

\* AsyncXiangxinAI._handle_response
AsyncXiangxinAI_handle_response(endpoint, o) ==
    IF o.status = 200 THEN OnStatus200(endpoint, o.body)
    ELSE IF o.status = 401 THEN OnStatus401
    ELSE IF o.status = 422 THEN OnStatus422(o.body)
    ELSE IF o.status = 429 THEN AsyncXiangxinAI_OnStatus429
    ELSE OnOtherStatus(o.status, o.body)

\* The try block of AsyncXiangxinAI._make_request
AsyncXiangxinAI_try(req, o) ==
    IF req.method \notin {"GET", "POST"}
    THEN Raise(Exc("XiangxinAIError", <<"Unsupported HTTP method: ", req.method>>))
    ELSE IF o.kind # "response" THEN Raise(AiohttpError(o.kind))
    ELSE AsyncXiangxinAI_handle_response(req.endpoint, o)

\* The except clauses of AsyncXiangxinAI._make_request, in their order
AsyncXiangxinAI_except(mr, a, e) ==
    IF e.cls = "asyncio.TimeoutError"
    THEN RetryOrRaise(mr, a, Exc("XiangxinAIError", <<"Request timeout">>))
    ELSE IF e.cls = "aiohttp.ClientError"
    THEN RetryOrRaise(mr, a, Exc("XiangxinAIError", <<"Connection error">>))
    ELSE IF e.cls \in NotRetried
    THEN Raise(e)
    ELSE RetryOrRaise(mr, a, Exc("XiangxinAIError", <<"Unexpected error: ">> \o e.msg))

\* One iteration of the loop of AsyncXiangxinAI._make_request; the sleep made inside
\* _handle_response comes before whatever the except clause adds
AsyncXiangxinAI_iteration(mr, a, req, o) ==
    LET t == AsyncXiangxinAI_try(req, o)
        h == AsyncXiangxinAI_except(mr, a, t.exc)
    IN  IF t.ctl = "raise"
        THEN Effect(h.ctl, t.sleeps \o h.sleeps, h.value, h.exc)
        ELSE t

Iteration(v, mr, a, req, o) ==
    IF v = "sync" THEN XiangxinAI_iteration(mr, a, req, o)
    ELSE AsyncXiangxinAI_iteration(mr, a, req, o)

(***************************************************************************)
(* The facade                                                              *)
(***************************************************************************)
Result(kind, value, exc) == [kind |-> kind, value |-> value, exc |-> exc]

NoResult == Result("none", NoValue, NoExc)

ResultOf(eff) == Result(eff.ctl, eff.value, eff.exc)

NoRequest == [method |-> "", endpoint |-> "", data |-> [none |-> TRUE]]

\* XiangxinAI._create_safe_response.  The call's argument list lacks the comma
\* between security=... and data=..., and DataSecurityResult is not imported:
\* the text of the method cannot be evaluated to a GuardrailResponse, so a
\* call of it ends in a failure that is no SDK failure.
XiangxinAI_create_safe_response ==
    Raise(Exc("SyntaxError", <<"invalid syntax. Perhaps you forgot a comma?">>))

\* AsyncXiangxinAI._create_safe_response
AsyncXiangxinAI_create_safe_response ==
    Return([type |-> "GuardrailResponse",
            id |-> "guardrails-safe-default",
            result |-> [compliance |-> [risk_level |-> "no_risk", categories |-> <<>>],
                        security |-> [risk_level |-> "no_risk", categories |-> <<>>],
                        data |-> None],
            overall_risk_level |-> "no_risk",
            suggest_action |-> "pass",
            suggest_answer |-> None,
            score |-> None])

create_safe_response(v) ==
    IF v = "sync" THEN XiangxinAI_create_safe_response
    ELSE AsyncXiangxinAI_create_safe_response

\* if not content or not content.strip()
IsBlank(content) == ~Truthy(content) \/ strip(content.chars) = <<>>

\* request_data of check_prompt
PromptData(content, user_id) ==
    IF Truthy(user_id)
    THEN [input |-> strip(content.chars), xxai_app_user_id |-> user_id.chars]
    ELSE [input |-> strip(content.chars)]

\* A blocking call occupies its thread: a client starts a call only when the
\* other one is not inside a call
MayStart(v) == pc[v] = "idle" /\ \A w \in Variants : pc[w] # "running"

\* A facade call that opens the session of the client before it looks at its input
Finish_opening(v, eff) ==
    /\ pc' = [pc EXCEPT ![v] = "done"]
    /\ result' = [result EXCEPT ![v] = ResultOf(eff)]
    /\ session' = [session EXCEPT ![v] = "open"]
    /\ UNCHANGED <<max_retries, call, outcomes, server, request, attempt, attempts, sleeps, io,
                   lifecycle, task, view>>

\* A facade call ends without reaching _make_request
Finish(v, eff) ==
    /\ pc' = [pc EXCEPT ![v] = "done"]
    /\ result' = [result EXCEPT ![v] = ResultOf(eff)]
    /\ UNCHANGED <<max_retries, call, outcomes, server, request, attempt, attempts, sleeps, session, io,
                 lifecycle, task, view>>

\* A _get_session that makes a session only when there never was one
get_session_first(s) == IF s = "none" THEN "open" ELSE s

\* async def _get_session: a session is made when there is none or it is closed
get_session(s) == IF s \in {"none", "closed"} THEN "open" ELSE s

\* A _get_session that makes a session whatever the client holds
Made_always(before, after, life) == Append(life, "create")

\* The record of a client's sessions after a step that took its session from
\* before to after: aiohttp.ClientSession(...) was called when it became open
Made(before, after, life) ==
    IF before # "open" /\ after = "open" THEN Append(life, "create") ELSE life

\* Entry of _make_request: the url is formed, the cooperative client gets its
\* session, and the loop starts at attempt 0
Enter(v, method, endpoint, data) ==
    /\ pc' = [pc EXCEPT ![v] = "running"]
    /\ request' = [request EXCEPT ![v] = [method |-> method, endpoint |-> endpoint, data |-> data]]
    /\ attempt' = [attempt EXCEPT ![v] = 0]
    /\ session' = [session EXCEPT ![v] = IF v = "async" THEN get_session(@) ELSE @]
    /\ lifecycle' = [lifecycle EXCEPT ![v] = Made(session[v], session'[v], @)]
    /\ UNCHANGED <<max_retries, call, outcomes, server, attempts, sleeps, result, io, task, view>>

check_prompt(v) ==
    /\ MayStart(v)
    /\ call.op = "check_prompt"
    /\ IF IsBlank(call.content)
       THEN Finish(v, create_safe_response(v))
       ELSE Enter(v, "POST", "/guardrails/input", PromptData(call.content, call.user_id))

\* XiangxinAI.check_prompt
XiangxinAI_check_prompt == check_prompt("sync")

\* AsyncXiangxinAI.check_prompt
AsyncXiangxinAI_check_prompt == check_prompt("async")

health_check(v) ==
    /\ MayStart(v)
    /\ call.op = "health_check"
    /\ Enter(v, "GET", "/guardrails/health", [none |-> TRUE])

XiangxinAI_health_check == health_check("sync")

AsyncXiangxinAI_health_check == health_check("async")

\* XiangxinAI.get_models / AsyncXiangxinAI.get_models
get_models(v) ==
    /\ MayStart(v)
    /\ call.op = "get_models"
    /\ Enter(v, "GET", "/guardrails/models", [none |-> TRUE])

\* XiangxinAI.get_models
XiangxinAI_get_models == get_models("sync")

\* AsyncXiangxinAI.get_models
AsyncXiangxinAI_get_models == get_models("async")

(***************************************************************************)
(* check_conversation.  An entry of the list is a mapping (its fields are  *)
(* the record `fields`) or something that is no mapping.                   *)
(***************************************************************************)
\* The roles Message.validate_role accepts
Roles == {"user", "system", "assistant"}

\* A Python list, as opposed to a str
List(items) == [items |-> items]

IsStr(x) == "chars" \in DOMAIN x

\* Message(role=..., content=...): validate_role rejects an unknown role with
\* pydantic's error, the field content: str rejects what is no string, and
\* validate_content strips the content
Message(role, content) ==
    IF role \notin Roles
    THEN Raise(Exc("pydantic.ValidationError",
                   <<"role must be one of: user, system, assistant">>))
    ELSE IF ~IsStr(content)
         THEN Raise(Exc("pydantic.ValidationError", <<"content: str type expected">>))
         ELSE Return([role |-> role, content |-> strip(content.chars)])

\* not isinstance(msg, dict) or "role" not in msg or "content" not in msg
IsMalformed(msg) ==
    ~msg.isdict \/ "role" \notin DOMAIN msg.fields \/ "content" \notin DOMAIN msg.fields

\* The loop over messages: the effect is a raise, or the return of
\* validated_messages (all_empty is true exactly when that list is empty,
\* both being changed together)
RECURSIVE ValidateMessages(_, _)
ValidateMessages(msgs, validated) ==
    IF msgs = <<>> THEN Return([messages |-> validated])
    ELSE LET msg == Head(msgs)
         IN  IF IsMalformed(msg)
             THEN Raise(Exc("ValidationError",
                            <<"Each message must have 'role' and 'content' fields">>))
             ELSE IF IsBlank(msg.fields.content)
                  THEN ValidateMessages(Tail(msgs), validated)
                  ELSE LET m == Message(msg.fields.role, msg.fields.content)
                       IN  IF m.ctl = "raise" THEN m
                           ELSE ValidateMessages(Tail(msgs), Append(validated, m.value))

\* A request that leaves the caller's identifier out
ConversationData_plain(model, messages, user_id) ==
    [model |-> model, messages |-> messages]

\* request_data.dict() with the optional extra_body
ConversationData(model, messages, user_id) ==
    IF Truthy(user_id)
    THEN [model |-> model, messages |-> messages,
          extra_body |-> [xxai_app_user_id |-> user_id.chars]]
    ELSE [model |-> model, messages |-> messages]

check_conversation(v) ==
    /\ MayStart(v)
    /\ call.op = "check_conversation"
    /\ IF call.messages = <<>>
       THEN Finish(v, Raise(Exc("ValidationError", <<"Messages cannot be empty">>)))
       ELSE LET checked == ValidateMessages(call.messages, <<>>)
            IN  IF checked.ctl = "raise" THEN Finish(v, checked)
                ELSE IF checked.value.messages = <<>>
                     THEN Finish(v, create_safe_response(v))
                     ELSE Enter(v, "POST", "/guardrails",
                                ConversationData(call.model, checked.value.messages,
                                                 call.user_id))

\* XiangxinAI.check_conversation
XiangxinAI_check_conversation == check_conversation("sync")

\* AsyncXiangxinAI.check_conversation
AsyncXiangxinAI_check_conversation == check_conversation("async")

(***************************************************************************)
(* check_response_ctx                                                      *)
(***************************************************************************)
\* prompt.strip() if prompt else ""
StripOrEmpty(text) == IF Truthy(text) THEN strip(text.chars) ELSE <<>>

\* request_data of check_response_ctx
ResponseCtxData(prompt, response, user_id) ==
    IF Truthy(user_id)
    THEN [input |-> StripOrEmpty(prompt), output |-> StripOrEmpty(response),
          xxai_app_user_id |-> user_id.chars]
    ELSE [input |-> StripOrEmpty(prompt), output |-> StripOrEmpty(response)]

check_response_ctx(v) ==
    /\ MayStart(v)
    /\ call.op = "check_response_ctx"
    /\ IF IsBlank(call.prompt) /\ IsBlank(call.response)
       THEN Finish(v, create_safe_response(v))
       ELSE Enter(v, "POST", "/guardrails/output",
                  ResponseCtxData(call.prompt, call.response, call.user_id))

\* XiangxinAI.check_response_ctx
XiangxinAI_check_response_ctx == check_response_ctx("sync")

\* AsyncXiangxinAI.check_response_ctx
AsyncXiangxinAI_check_response_ctx == check_response_ctx("async")

(***************************************************************************)
(* Images.  A path is a sequence of fragments, so that startswith is a     *)
(* test of the first one; bytes are integers 0..255.                       *)
(***************************************************************************)
Schemes == {"http://", "https://"}

\* image_path.startswith(('http://', 'https://'))
IsRemote(path) == path # <<>> /\ Head(path) \in Schemes

\* The sequences over S of length at most n
RECURSIVE SeqsUpTo(_, _)
SeqsUpTo(S, n) ==
    IF n = 0 THEN {<<>>}
    ELSE LET shorter == SeqsUpTo(S, n - 1)
         IN  shorter \cup {Append(s, c) : s \in {t \in shorter : Len(t) = n - 1}, c \in S}

MaxBytes == 4

\* Byte values with every bit set in one of them and clear in another
ByteValues == {0, 77, 170, 255}

\* Image data of every length up to MaxBytes: whole groups of three bytes and
\* the two kinds of last group
Blobs == SeqsUpTo(ByteValues, MaxBytes)

\* Two readable images and one file the process may not read
NamedFiles ==
    {[path |-> <<"/tmp/", "a.jpg">>, readable |-> TRUE, bytes |-> <<255, 216, 255>>],
     [path |-> <<"/tmp/", "b.png">>, readable |-> TRUE, bytes |-> <<137, 80>>],
     [path |-> <<"/root/", "locked.jpg">>, readable |-> FALSE, bytes |-> <<>>]}

\* The files of the machine: the named ones and one file for every image data
Disk ==
    NamedFiles
    \cup {[path |-> <<"/blob/", ToString(b)>>, readable |-> TRUE, bytes |-> b] : b \in Blobs}

\* An image that is served, one that is gone, and one served by the API host
NamedPages ==
    {[url |-> <<"https://", "api.xiangxinai.cn", "/v1/logo.png">>, ok |-> TRUE,
      content |-> <<137>>],
     [url |-> <<"https://", "cdn.example", "/a.gif">>, ok |-> TRUE, content |-> <<71>>],
     [url |-> <<"http://", "cdn.example", "/gone.jpg">>, ok |-> FALSE, content |-> <<>>]}

\* The pages of the web: the named ones and one page for every image data
Web ==
    NamedPages
    \cup {[url |-> <<"https://", "cdn.example", ToString(b)>>, ok |-> TRUE, content |-> b] :
             b \in Blobs}

\* open(image_path, 'rb') and f.read()
open_rb(path) ==
    LET found == {f \in Disk : f.path = path}
    IN  IF found = {}
        THEN Raise(Exc("FileNotFoundError", <<"No such file or directory: ">> \o path))
        ELSE LET f == CHOOSE f \in found : TRUE
             IN  IF f.readable THEN Return([bytes |-> f.bytes])
                 ELSE Raise(Exc("PermissionError", <<"Permission denied: ">> \o path))

\* session.get(image_path) and raise_for_status(): the body, or the error of
\* the transport of client v
session_get(v, url) ==
    LET found == {w \in Web : w.url = url}
    IN  IF found = {}
        THEN Raise(IF v = "sync" THEN RequestsError("connection")
                   ELSE AiohttpError("connection"))
        ELSE LET w == CHOOSE w \in found : TRUE
             IN  IF w.ok THEN Return([bytes |-> w.content])
                 ELSE Raise(Exc(IF v = "sync" THEN "requests.HTTPError"
                                ELSE "aiohttp.ClientResponseError",
                                <<"404 Client Error: Not Found for url: ">> \o url))

B64Alphabet ==
    <<"A", "B", "C", "D", "E", "F", "G", "H", "I", "J", "K", "L", "M", "N", "O", "P",
      "Q", "R", "S", "T", "U", "V", "W", "X", "Y", "Z", "a", "b", "c", "d", "e", "f",
      "g", "h", "i", "j", "k", "l", "m", "n", "o", "p", "q", "r", "s", "t", "u", "v",
      "w", "x", "y", "z", "0", "1", "2", "3", "4", "5", "6", "7", "8", "9", "+", "/">>

B64Char(sextet) == B64Alphabet[sextet + 1]

\* base64.b64encode(...).decode('utf-8'): three bytes give four characters,
\* a last group of one or two bytes is padded with "="
RECURSIVE b64encode(_)
b64encode(bytes) ==
    IF bytes = <<>> THEN <<>>
    ELSE IF Len(bytes) = 1
         THEN <<B64Char(bytes[1] \div 4), B64Char((bytes[1] % 4) * 16), "=", "=">>
         ELSE IF Len(bytes) = 2
              THEN <<B64Char(bytes[1] \div 4),
                     B64Char((bytes[1] % 4) * 16 + bytes[2] \div 16),
                     B64Char((bytes[2] % 16) * 4), "=">>
              ELSE <<B64Char(bytes[1] \div 4),
                     B64Char((bytes[1] % 4) * 16 + bytes[2] \div 16),
                     B64Char((bytes[2] % 16) * 4 + bytes[3] \div 64),
                     B64Char(bytes[3] % 64)>>
                   \o b64encode(SubSeq(bytes, 4, Len(bytes)))

\* XiangxinAI._encode_base64_from_path / AsyncXiangxinAI._encode_base64_from_path_async
encode_base64_from_path(v, image_path) ==
    LET got == IF IsRemote(image_path) THEN session_get(v, image_path)
               ELSE open_rb(image_path)
    IN  IF got.ctl = "raise" THEN got ELSE Return([b64 |-> b64encode(got.value.bytes)])

\* The encoding guarded by the general except clause alone
EncodingFailure_generic(exc, image_path, prefix) ==
    Exc("XiangxinAIError", prefix \o exc.msg)

\* The two except clauses around the encoding
EncodingFailure(exc, image_path, prefix) ==
    IF exc.cls = "FileNotFoundError"
    THEN Exc("ValidationError", <<"Image file not found: ">> \o image_path)
    ELSE Exc("XiangxinAIError", prefix \o exc.msg)

\* base_url, the default of both constructors
BaseUrl == <<"https://", "api.xiangxinai.cn", "/v1">>

\* The headers the session of either client sends with every request made through it
SessionHeaders == {"Authorization", "Content-Type", "User-Agent"}

\* What the encoding of image_path touched: a file opened, or a GET made through
\* the session of the client, which adds the headers of the session
Access(image_path) ==
    [op |-> IF IsRemote(image_path) THEN "get" ELSE "open",
     path |-> image_path,
     headers |-> IF IsRemote(image_path) THEN SessionHeaders ELSE {}]

TextParts(prompt) ==
    IF IsBlank(prompt) THEN <<>> ELSE <<[type |-> "text", text |-> strip(prompt.chars)]>>

\* A content part whose url is the encoding alone
ImagePart_bare(image_base64) == [type |-> "image_url", image_url |-> [url |-> image_base64]]

ImagePart(image_base64) ==
    [type |-> "image_url",
     image_url |-> [url |-> <<"data:image/jpeg;base64,">> \o image_base64]]

\* A cooperative client that makes its session before it looks at the images
SessionAfter_eager(v, s, log) == IF v = "async" THEN get_session(s) ELSE s

\* The session of client v after the accesses of log: the cooperative client
\* makes its session for the first fetch
SessionAfter(v, s, log) ==
    IF v = "async" /\ \E i \in 1 .. Len(log) : log[i].op = "get" THEN get_session(s) ELSE s

\* An image call ends without reaching _make_request
FinishImage(v, eff, log) ==
    /\ pc' = [pc EXCEPT ![v] = "done"]
    /\ result' = [result EXCEPT ![v] = ResultOf(eff)]
    /\ io' = [io EXCEPT ![v] = @ \o log]
    /\ session' = [session EXCEPT ![v] = SessionAfter(v, @, log)]
    /\ lifecycle' = [lifecycle EXCEPT ![v] = Made(session[v], session'[v], @)]
    /\ UNCHANGED <<max_retries, call, outcomes, server, request, attempt, attempts, sleeps,
                   task, view>>

\* An image call enters _make_request
EnterImage(v, data, log) ==
    /\ pc' = [pc EXCEPT ![v] = "running"]
    /\ request' = [request EXCEPT ![v] = [method |-> "POST", endpoint |-> "/guardrails", data |-> data]]
    /\ attempt' = [attempt EXCEPT ![v] = 0]
    /\ io' = [io EXCEPT ![v] = @ \o log]
    /\ session' = [session EXCEPT ![v] = IF v = "async" THEN get_session(@) ELSE @]
    /\ lifecycle' = [lifecycle EXCEPT ![v] = Made(session[v], session'[v], @)]
    /\ UNCHANGED <<max_retries, call, outcomes, server, attempts, sleeps, result, task, view>>

\* messages = [Message(role="user", content=content)], GuardrailRequest(...).dict(),
\* and the call of _make_request; with_user_id tells whether the operation
\* copies user_id into extra_body
SendImageMessage(v, content, log, with_user_id) ==
    LET m == Message("user", List(content))
    IN  IF m.ctl = "raise" THEN FinishImage(v, m, log)
        ELSE EnterImage(v, ConversationData(call.model, <<m.value>>,
                                            IF with_user_id THEN call.user_id ELSE None), log)

check_prompt_image(v) ==
    /\ MayStart(v)
    /\ call.op = "check_prompt_image"
    /\ IF ~Truthy(call.image)
       THEN FinishImage(v, Raise(Exc("ValidationError", <<"Image path cannot be empty">>)), <<>>)
       ELSE LET image == call.image.chars
                enc == encode_base64_from_path(v, image)
                log == <<Access(image)>>
            IN  IF enc.ctl = "raise"
                THEN FinishImage(v, Raise(EncodingFailure(enc.exc, image,
                                                          <<"Failed to encode image: ">>)), log)
                ELSE SendImageMessage(v, TextParts(call.prompt) \o <<ImagePart(enc.value.b64)>>,
                                      log, v = "sync")

\* XiangxinAI.check_prompt_image
XiangxinAI_check_prompt_image == check_prompt_image("sync")

\* AsyncXiangxinAI.check_prompt_image: user_id is not copied into the request
AsyncXiangxinAI_check_prompt_image == check_prompt_image("async")

\* A loop that reads or fetches every image before it reports the first failure
EncodeAll_eager(v, images, content, log) ==
    LET enc(i) == encode_base64_from_path(v, images[i])
        failing == {i \in 1 .. Len(images) : enc(i).ctl = "raise"}
        all == log \o [i \in 1 .. Len(images) |-> Access(images[i])]
    IN  IF failing = {}
        THEN [eff |-> Return([content |-> content \o [i \in 1 .. Len(images) |->
                                                         ImagePart(enc(i).value.b64)]]),
              log |-> all]
        ELSE LET f == CHOOSE i \in failing : \A j \in failing : i <= j
             IN  [eff |-> Raise(EncodingFailure(enc(f).exc, images[f],
                                   <<"Failed to encode image ">> \o images[f] \o <<": ">>)),
                  log |-> all]

\* for image_path in images: the content built and the accesses made, up to
\* the first image that cannot be encoded
RECURSIVE EncodeAll(_, _, _, _)
EncodeAll(v, images, content, log) ==
    IF images = <<>> THEN [eff |-> Return([content |-> content]), log |-> log]
    ELSE LET image_path == Head(images)
             enc == encode_base64_from_path(v, image_path)
         IN  IF enc.ctl = "raise"
             THEN [eff |-> Raise(EncodingFailure(enc.exc, image_path,
                                   <<"Failed to encode image ">> \o image_path \o <<": ">>)),
                   log |-> Append(log, Access(image_path))]
             ELSE EncodeAll(v, Tail(images), Append(content, ImagePart(enc.value.b64)),
                            Append(log, Access(image_path)))

check_prompt_images(v) ==
    /\ MayStart(v)
    /\ call.op = "check_prompt_images"
    /\ IF call.images.none \/ Len(call.images.items) = 0
       THEN FinishImage(v, Raise(Exc("ValidationError", <<"Images list cannot be empty">>)), <<>>)
       ELSE LET all == EncodeAll(v, call.images.items, TextParts(call.prompt), <<>>)
            IN  IF all.eff.ctl = "raise" THEN FinishImage(v, all.eff, all.log)
                ELSE SendImageMessage(v, all.eff.value.content, all.log, TRUE)

\* XiangxinAI.check_prompt_images
XiangxinAI_check_prompt_images == check_prompt_images("sync")

\* AsyncXiangxinAI.check_prompt_images
AsyncXiangxinAI_check_prompt_images == check_prompt_images("async")

(***************************************************************************)
(* Release of the session                                                  *)
(***************************************************************************)
MaxEvents == 4

\* A close that does not look at the session first
close_unguarded(s) == "closed"

\* if self._session and not self._session.closed: await self._session.close()
close(s) == IF s = "open" THEN "closed" ELSE s

\* A release asked for by the caller of client v, between two calls
Release(v, after) ==
    /\ pc[v] # "running"
    /\ Len(lifecycle[v]) < MaxEvents
    /\ session' = [session EXCEPT ![v] = after]
    /\ lifecycle' = [lifecycle EXCEPT ![v] = Append(@, "release")]
    /\ UNCHANGED <<max_retries, call, outcomes, server, pc, request, attempt, attempts, sleeps,
                   result, io, task, view>>

\* AsyncXiangxinAI.close
AsyncXiangxinAI_close == Release("async", close(session["async"]))

\* AsyncXiangxinAI.__aexit__: await self.close()
AsyncXiangxinAI_aexit == AsyncXiangxinAI_close

\* XiangxinAI.__exit__: the object has a _session since __init__, and
\* requests.Session.close() may be called on a closed session
XiangxinAI_exit == Release("sync", "closed")

\* The caller of client v, its call having ended, goes on to its next call
NextCall(v) ==
    /\ pc[v] = "done"
    /\ pc' = [pc EXCEPT ![v] = "idle"]
    /\ request' = [request EXCEPT ![v] = NoRequest]
    /\ attempt' = [attempt EXCEPT ![v] = 0]
    /\ attempts' = [attempts EXCEPT ![v] = 0]
    /\ sleeps' = [sleeps EXCEPT ![v] = <<>>]
    /\ result' = [result EXCEPT ![v] = NoResult]
    /\ UNCHANGED <<max_retries, call, outcomes, server, session, io, lifecycle, task, view>>

(***************************************************************************)
(* The retry loop                                                          *)
(***************************************************************************)
\* The outcomes an attempt of this run can meet
Offered ==
    CASE outcomes = "core" -> CoreOutcomes
      [] outcomes = "brief" -> BriefOutcomes
      [] outcomes = "retry" -> RetryOutcomes
      [] OTHER -> Outcomes

\* for attempt in range(self.max_retries + 1): one iteration, with the outcome
\* the server script holds for this HTTP attempt (a fresh one when the script
\* is not that long yet)
LoopIteration(v) ==
    /\ pc[v] = "running"
    /\ attempt[v] < max_retries + 1
    /\ LET n == attempts[v] + 1
       IN  \E o \in (IF n <= Len(server) THEN {server[n]} ELSE Offered) :
             LET eff == Iteration(v, max_retries, attempt[v], request[v], o)
             IN  /\ server' = IF n <= Len(server) THEN server ELSE Append(server, o)
                 /\ attempts' = [attempts EXCEPT ![v] = n]
                 /\ sleeps' = [sleeps EXCEPT ![v] = Append(@, eff.sleeps)]
                 /\ IF eff.ctl = "continue"
                    THEN /\ attempt' = [attempt EXCEPT ![v] = @ + 1]
                         /\ UNCHANGED <<pc, result>>
                    ELSE /\ pc' = [pc EXCEPT ![v] = "done"]
                         /\ result' = [result EXCEPT ![v] = ResultOf(eff)]
                         /\ UNCHANGED attempt
    /\ UNCHANGED <<max_retries, call, outcomes, request, session, io, lifecycle, task, view>>

\* The range is exhausted: the function body ends and the call returns None
LoopExhausted(v) ==
    /\ pc[v] = "running"
    /\ ~(attempt[v] < max_retries + 1)
    /\ pc' = [pc EXCEPT ![v] = "done"]
    /\ result' = [result EXCEPT ![v] = ResultOf(Return(PyNone))]
    /\ UNCHANGED <<max_retries, call, outcomes, server, request, attempt, attempts, sleeps, session, io,
                 lifecycle, task, view>>

\* XiangxinAI._make_request
XiangxinAI_make_request == LoopIteration("sync") \/ LoopExhausted("sync")

\* AsyncXiangxinAI._make_request
AsyncXiangxinAI_make_request == LoopIteration("async") \/ LoopExhausted("async")

(***************************************************************************)
(* Specifications                                                          *)
(***************************************************************************)
Texts == {None} \cup {Str(s) : s \in SeqsUpTo(Chars, MaxLen)}

UserIds == {None, Str(<<>>), Str(<<"u">>)}

PromptCall(content, user_id) == [op |-> "check_prompt", content |-> content, user_id |-> user_id]

HealthCall == [op |-> "health_check"]

InitClients ==
    /\ server = <<>>
    /\ pc = [v \in Variants |-> "idle"]
    /\ request = [v \in Variants |-> NoRequest]
    /\ attempt = [v \in Variants |-> 0]
    /\ attempts = [v \in Variants |-> 0]
    /\ sleeps = [v \in Variants |-> <<>>]
    /\ result = [v \in Variants |-> NoResult]
    /\ session = [v \in Variants |-> IF v = "sync" THEN "open" ELSE "none"]
    /\ io = [v \in Variants |-> <<>>]
    /\ lifecycle = [v \in Variants |-> IF v = "sync" THEN <<"create">> ELSE <<>>]
    /\ task = <<>>
    /\ view = NoValue

\* The retry engine under every retry budget of the bound, for one detection
\* call and one status call
Init ==
    /\ max_retries \in -1 .. MaxRetries
    /\ call \in {PromptCall(Str(<<"a">>), None), HealthCall}
    /\ outcomes = "core"
    /\ InitClients

Next ==
    \/ XiangxinAI_check_prompt
    \/ AsyncXiangxinAI_check_prompt
    \/ XiangxinAI_health_check
    \/ AsyncXiangxinAI_health_check
    \/ XiangxinAI_make_request
    \/ AsyncXiangxinAI_make_request

Spec == Init /\ [][Next]_vars

\* The facade under every argument of the bound, with a small retry budget
InitFacade ==
    /\ max_retries \in -1 .. FacadeRetries
    /\ call \in {PromptCall(c, u) : c \in Texts, u \in UserIds} \cup {HealthCall}
    /\ outcomes = "all"
    /\ InitClients

SpecFacade == InitFacade /\ [][Next]_vars

(***************************************************************************)
(* check_conversation under every list of the bound                        *)
(***************************************************************************)
MaxMessages == 2

RECURSIVE ListsUpTo(_, _)
ListsUpTo(S, n) ==
    IF n = 0 THEN {<<>>}
    ELSE LET shorter == ListsUpTo(S, n - 1)
         IN  shorter \cup {Append(s, c) : s \in {t \in shorter : Len(t) = n - 1}, c \in S}

Dict(fields) == [isdict |-> TRUE, fields |-> fields]

\* Contents of a message: empty, whitespace, and two texts that differ when trimmed
MessageContents == {Str(<<>>), Str(<<" ">>), Str(<<"a">>), Str(<<" ", "a", "a">>)}

\* Entries of a message list: well-formed ones (one role is unknown), and the
\* malformed ones: no mapping, no role, no content
Entries ==
    {Dict([role |-> r, content |-> c]) : r \in {"user", "assistant", "tool"}, c \in MessageContents}
    \cup {[isdict |-> FALSE, fields |-> [text |-> Str(<<"a">>)]],
          Dict([content |-> Str(<<"a">>)]),
          Dict([role |-> "user"])}

ConversationCall(messages, user_id) ==
    [op |-> "check_conversation", messages |-> messages,
     model |-> "Xiangxin-Guardrails-Text", user_id |-> user_id]

InitConversation ==
    /\ max_retries \in -1 .. FacadeRetries
    /\ call \in {ConversationCall(ms, None) : ms \in ListsUpTo(Entries, MaxMessages)}
    /\ outcomes = "brief"
    /\ InitClients

NextConversation ==
    \/ XiangxinAI_check_conversation
    \/ AsyncXiangxinAI_check_conversation
    \/ XiangxinAI_make_request
    \/ AsyncXiangxinAI_make_request

SpecConversation == InitConversation /\ [][NextConversation]_vars

(***************************************************************************)
(* check_response_ctx under every prompt and response of the bound         *)
(***************************************************************************)
ResponseCtxCall(prompt, response, user_id) ==
    [op |-> "check_response_ctx", prompt |-> prompt, response |-> response,
     user_id |-> user_id]

InitResponseCtx ==
    /\ max_retries \in -1 .. FacadeRetries
    /\ call \in {ResponseCtxCall(p, r, None) : p \in Texts, r \in Texts}
    /\ outcomes = "brief"
    /\ InitClients

NextResponseCtx ==
    \/ XiangxinAI_check_response_ctx
    \/ AsyncXiangxinAI_check_response_ctx
    \/ XiangxinAI_make_request
    \/ AsyncXiangxinAI_make_request

SpecResponseCtx == InitResponseCtx /\ [][NextResponseCtx]_vars

(***************************************************************************)
(* Every public operation: one text call per endpoint with every user_id,  *)
(* and the image calls under every image list of the bound                 *)
(***************************************************************************)
MaxImages == 2

ModelsCall == [op |-> "get_models"]

\* Paths given as images: the files and pages above, and a file that does not exist
ImagePaths ==
    {f.path : f \in NamedFiles} \cup {w.url : w \in NamedPages}
    \cup {<<"/tmp/", "missing.jpg">>}

ImageCall(prompt, image, user_id) ==
    [op |-> "check_prompt_image", prompt |-> prompt, image |-> image,
     model |-> "Xiangxin-Guardrails-VL", user_id |-> user_id]

ImagesCall(prompt, images, user_id) ==
    [op |-> "check_prompt_images", prompt |-> prompt, images |-> images,
     model |-> "Xiangxin-Guardrails-VL", user_id |-> user_id]

TextCalls ==
    {HealthCall, ModelsCall}
    \cup {PromptCall(Str(<<"a">>), u) : u \in UserIds}
    \cup {ConversationCall(<<Dict([role |-> "user", content |-> Str(<<"a">>)])>>, u) : u \in UserIds}
    \cup {ResponseCtxCall(Str(<<"a">>), Str(<<"a">>), u) : u \in UserIds}

ImagePrompts == {None, Str(<<" ", "a">>)}

ImageCalls ==
    {ImageCall(p, i, u) : p \in ImagePrompts,
                          i \in {None, Str(<<>>)} \cup {Str(path) : path \in ImagePaths},
                          u \in {None, Str(<<"u">>)}}
    \cup {ImagesCall(p, i, u) : p \in ImagePrompts,
                           i \in {[none |-> TRUE, items |-> <<>>]}
                                 \cup {[none |-> FALSE, items |-> l] :
                                          l \in ListsUpTo(ImagePaths, MaxImages)},
                           u \in {None, Str(<<"u">>)}}

InitOps ==
    /\ max_retries \in -1 .. FacadeRetries
    /\ call \in TextCalls \cup ImageCalls
    /\ outcomes = "core"
    /\ InitClients

NextOps ==
    \/ XiangxinAI_check_prompt
    \/ AsyncXiangxinAI_check_prompt
    \/ XiangxinAI_check_conversation
    \/ AsyncXiangxinAI_check_conversation
    \/ XiangxinAI_check_response_ctx
    \/ AsyncXiangxinAI_check_response_ctx
    \/ XiangxinAI_check_prompt_image
    \/ AsyncXiangxinAI_check_prompt_image
    \/ XiangxinAI_check_prompt_images
    \/ AsyncXiangxinAI_check_prompt_images
    \/ XiangxinAI_health_check
    \/ AsyncXiangxinAI_health_check
    \/ XiangxinAI_get_models
    \/ AsyncXiangxinAI_get_models
    \/ XiangxinAI_make_request
    \/ AsyncXiangxinAI_make_request

SpecOps == InitOps /\ [][NextOps]_vars

(***************************************************************************)
(* Every public operation on a client in any state of its session: inputs  *)
(* that end a call before _make_request, and inputs that reach it          *)
(***************************************************************************)
\* Calls that end at a short circuit or at the validation of their input, with one
\* call per operation that goes through
FrameCalls ==
    TextCalls
    \cup {PromptCall(c, None) : c \in {None, Str(<<>>), Str(<<" ">>)}}
    \cup {ConversationCall(ms, None) : ms \in ListsUpTo(Entries, MaxMessages)}
    \cup {ResponseCtxCall(Str(<<" ">>), None, None)}
    \cup {ImageCall(None, i, None) :
             i \in {None, Str(<<>>)} \cup {Str(path) : path \in ImagePaths}}
    \cup {ImagesCall(None, i, None) :
             i \in {[none |-> TRUE, items |-> <<>>], [none |-> FALSE, items |-> <<>>]}
                   \cup {[none |-> FALSE, items |-> <<path>>] : path \in ImagePaths}}

\* The session of an AsyncXiangxinAI before the call: never made, open after an
\* earlier call, closed after close()
InitFrame ==
    /\ max_retries \in -1 .. FacadeRetries
    /\ call \in FrameCalls
    /\ outcomes = "brief"
    /\ server = <<>>
    /\ pc = [v \in Variants |-> "idle"]
    /\ request = [v \in Variants |-> NoRequest]
    /\ attempt = [v \in Variants |-> 0]
    /\ attempts = [v \in Variants |-> 0]
    /\ sleeps = [v \in Variants |-> <<>>]
    /\ result = [v \in Variants |-> NoResult]
    /\ \E before \in {<<>>, <<"create">>, <<"create", "release">>} :
          /\ lifecycle = [v \in Variants |-> IF v = "sync" THEN <<"create">> ELSE before]
          /\ session = [v \in Variants |->
                          IF v = "sync" \/ before = <<"create">> THEN "open"
                          ELSE IF before = <<>> THEN "none" ELSE "closed"]
    /\ io = [v \in Variants |-> <<>>]
    /\ task = <<>>
    /\ view = NoValue

SpecFrame == InitFrame /\ [][NextOps]_vars

(***************************************************************************)
(* Concurrent calls on one AsyncXiangxinAI.  Each call is a coroutine with *)
(* its own locals; the coroutines share self._session and nothing else.    *)
(* A coroutine gives way to the others at its awaits on the network and on *)
(* sleep, that is between two iterations of the loop; _get_session has no  *)
(* await inside, so it runs in one piece.                                  *)
(***************************************************************************)
Tasks == {1, 2}

\* The request a call hands to _make_request
RequestOf(c) ==
    IF c.op = "check_prompt"
    THEN [method |-> "POST", endpoint |-> "/guardrails/input",
          data |-> PromptData(c.content, c.user_id)]
    ELSE [method |-> "GET", endpoint |-> "/guardrails/health", data |-> [none |-> TRUE]]

\* The locals of a coroutine; captured is the session it holds, by its place among
\* the sessions the client has made (0 before it has one)
NewTask ==
    [pc |-> "idle", request |-> NoRequest, attempt |-> 0, met |-> <<>>, sleeps |-> <<>>,
     result |-> NoResult, captured |-> 0]

\* How many sessions a client has made
Created(life) == Len(SelectSeq(life, LAMBDA e : e = "create"))

\* A coroutine that asks the client for a session before every attempt
held_session_reacquired(captured, made, current) == get_session(current)

\* The state of the session a coroutine holds in its local `session`: the client
\* replaces a session only once it is closed, so an earlier one than the client's is closed
held_session(captured, made, current) == IF captured < made THEN "closed" ELSE current

\* What an attempt through `session` can meet: a closed ClientSession raises
\* RuntimeError("Session is closed") before anything is sent
OfferedOn(state) == IF state = "closed" THEN {TransportFailure("closed")} ELSE Offered

\* A loop counter kept on the client, where every coroutine counts on it
attempt_shared(tk, t) == tk[1].attempt + tk[2].attempt

\* for attempt in range(...): the loop variable is a local of the coroutine
attempt_local(tk, t) == tk[t].attempt

\* url = ..., session = await self._get_session()
TaskEnter(t) ==
    /\ task[t].pc = "idle"
    /\ session' = [session EXCEPT !["async"] = get_session(@)]
    /\ lifecycle' = [lifecycle EXCEPT !["async"] = Made(session["async"], session'["async"], @)]
    /\ task' = [task EXCEPT ![t].pc = "running", ![t].request = RequestOf(call),
                            ![t].captured = Created(lifecycle'["async"])]
    /\ UNCHANGED <<max_retries, call, outcomes, server, pc, request, attempt, attempts, sleeps,
                   result, io, view>>

\* One iteration of the loop in coroutine t, with the outcome its own request meets
TaskIteration(t) ==
    /\ task[t].pc = "running"
    /\ attempt_local(task, t) < max_retries + 1
    /\ \E o \in OfferedOn(held_session(task[t].captured, Created(lifecycle["async"]),
                                        session["async"])) :
          LET eff == AsyncXiangxinAI_iteration(max_retries, attempt_local(task, t),
                                               task[t].request, o)
          IN  task' = [task EXCEPT
                         ![t].met = Append(@, o),
                         ![t].sleeps = Append(@, eff.sleeps),
                         ![t].attempt = IF eff.ctl = "continue" THEN @ + 1 ELSE @,
                         ![t].pc = IF eff.ctl = "continue" THEN @ ELSE "done",
                         ![t].result = IF eff.ctl = "continue" THEN @ ELSE ResultOf(eff)]
    /\ UNCHANGED <<max_retries, call, outcomes, server, pc, request, attempt, attempts, sleeps,
                   result, session, io, lifecycle, view>>

\* The range is exhausted in coroutine t
TaskExhausted(t) ==
    /\ task[t].pc = "running"
    /\ ~(attempt_local(task, t) < max_retries + 1)
    /\ task' = [task EXCEPT ![t].pc = "done", ![t].result = ResultOf(Return(PyNone))]
    /\ UNCHANGED <<max_retries, call, outcomes, server, pc, request, attempt, attempts, sleeps,
                   result, session, io, lifecycle, view>>

InitConcurrent ==
    /\ max_retries \in -1 .. FacadeRetries
    /\ call \in {PromptCall(Str(<<"a">>), None), HealthCall}
    /\ outcomes = "retry"
    /\ server = <<>>
    /\ pc = [v \in Variants |-> "idle"]
    /\ request = [v \in Variants |-> NoRequest]
    /\ attempt = [v \in Variants |-> 0]
    /\ attempts = [v \in Variants |-> 0]
    /\ sleeps = [v \in Variants |-> <<>>]
    /\ result = [v \in Variants |-> NoResult]
    /\ session = [v \in Variants |-> IF v = "sync" THEN "open" ELSE "none"]
    /\ io = [v \in Variants |-> <<>>]
    /\ lifecycle = [v \in Variants |-> IF v = "sync" THEN <<"create">> ELSE <<>>]
    /\ task = [t \in Tasks |-> NewTask]
    /\ view = NoValue

NextConcurrent ==
    \E t \in Tasks : TaskEnter(t) \/ TaskIteration(t) \/ TaskExhausted(t)

SpecConcurrent == InitConcurrent /\ [][NextConcurrent]_vars

(***************************************************************************)
(* The same coroutines with close() called by a third one at any of their  *)
(* awaits.  Every await of a call is bounded (the total timeout of the     *)
(* session, a sleep of one or two seconds), so a running coroutine goes on.*)
(***************************************************************************)
InitInFlight ==
    /\ max_retries \in -1 .. FacadeRetries
    /\ call = PromptCall(Str(<<"a">>), None)
    /\ outcomes = "brief"
    /\ server = <<>>
    /\ pc = [v \in Variants |-> "idle"]
    /\ request = [v \in Variants |-> NoRequest]
    /\ attempt = [v \in Variants |-> 0]
    /\ attempts = [v \in Variants |-> 0]
    /\ sleeps = [v \in Variants |-> <<>>]
    /\ result = [v \in Variants |-> NoResult]
    /\ session = [v \in Variants |-> IF v = "sync" THEN "open" ELSE "none"]
    /\ io = [v \in Variants |-> <<>>]
    /\ lifecycle = [v \in Variants |-> IF v = "sync" THEN <<"create">> ELSE <<>>]
    /\ task = [t \in Tasks |-> NewTask]
    /\ view = NoValue

NextInFlight ==
    \/ \E t \in Tasks : TaskEnter(t) \/ TaskIteration(t) \/ TaskExhausted(t)
    \/ AsyncXiangxinAI_close

SpecInFlight ==
    /\ InitInFlight
    /\ [][NextInFlight]_vars
    /\ \A t \in Tasks : WF_vars(TaskIteration(t) \/ TaskExhausted(t))

(***************************************************************************)
(* Calls and releases in any order, one client call at a time              *)
(***************************************************************************)
InitLifecycle ==
    /\ max_retries \in -1 .. 0
    /\ call \in {PromptCall(Str(<<"a">>), None), HealthCall}
    /\ outcomes = "brief"
    /\ InitClients

NextLifecycle ==
    \/ XiangxinAI_check_prompt
    \/ AsyncXiangxinAI_check_prompt
    \/ XiangxinAI_health_check
    \/ AsyncXiangxinAI_health_check
    \/ XiangxinAI_make_request
    \/ AsyncXiangxinAI_make_request
    \/ NextCall("sync")
    \/ NextCall("async")
    \/ XiangxinAI_exit
    \/ AsyncXiangxinAI_close
    \/ AsyncXiangxinAI_aexit

SpecLifecycle == InitLifecycle /\ [][NextLifecycle]_vars

(***************************************************************************)
(* Vocabulary of the properties                                            *)
(***************************************************************************)
Done(v) == pc[v] = "done"

\* The call reached _make_request
ReachedTransport(v) == request[v] # NoRequest

Raised(v, cls) == result[v].kind = "raise" /\ result[v].exc.cls = cls

Returned(v) == result[v].kind = "return"

RECURSIVE Flatten(_)
Flatten(ss) == IF ss = <<>> THEN <<>> ELSE Head(ss) \o Flatten(Tail(ss))

\* Every duration client v slept, in order
AllSleeps(v) == Flatten(sleeps[v])

\* After its i-th HTTP attempt client v went on to the next one
WentOn(v, i) == attempts[v] > i \/ (pc[v] = "running" /\ attempts[v] = i /\ attempt[v] = i)

\* Client v's call ended on its i-th HTTP attempt
EndedOn(v, i) == Done(v) /\ attempts[v] = i

Is429(o) == o.kind = "response" /\ o.status = 429

IsGood200(o) == o = Response(200, GoodBody)

IsTransient(o) == Is429(o) \/ o.kind \in {"timeout", "connection"}

(***************************************************************************)
(* C1..C9: the retry engine                                                *)
(***************************************************************************)
\* C1: in both clients, a call that met HTTP 429 on every attempt ends by raising
\* RateLimitError after exactly max_retries + 1 HTTP attempts (max_retries >= 0).
C1_RateLimitAfterAllAttempts ==
    \A v \in Variants :
        (/\ Done(v) /\ ReachedTransport(v) /\ max_retries >= 0
         /\ \A i \in 1 .. attempts[v] : Is429(server[i]))
        => Raised(v, "RateLimitError") /\ attempts[v] = max_retries + 1

\* C2: for the same max_retries and the same outcome sequence the two clients make
\* the same number of attempts, sleep the same durations in the same order, and
\* end with the same result or the same kind of failure.
C2_SameRetryPolicy ==
    (/\ Done("sync") /\ Done("async")
     /\ ReachedTransport("sync") /\ ReachedTransport("async"))
    => /\ attempts["sync"] = attempts["async"]
       /\ AllSleeps("sync") = AllSleeps("async")
       /\ result["sync"].kind = result["async"].kind
       /\ result["sync"].exc.cls = result["async"].exc.cls
       /\ result["sync"].value = result["async"].value

\* C3: in the retry engine of XiangxinAI._make_request, HTTP 429 on attempt a (0-based)
\* with a < max_retries is followed by a sleep of exactly 2^a + 1 seconds and then by
\* attempt a+1; these delays are strictly increasing; and 429 on attempts 0,1,2 then
\* 200 on attempt 3 gives the sleeps 2, 3, 5 in that order and returns the success.
C3_ExponentialBackoff ==
    /\ \A i \in 1 .. attempts["sync"] :
          (Is429(server[i]) /\ i - 1 < max_retries)
          => sleeps["sync"][i] = <<2 ^ (i - 1) + 1>> /\ WentOn("sync", i)
    /\ \A i, j \in 1 .. attempts["sync"] :
          (/\ i < j /\ Is429(server[i]) /\ Is429(server[j])
           /\ sleeps["sync"][i] # <<>> /\ sleeps["sync"][j] # <<>>)
          => sleeps["sync"][i][1] < sleeps["sync"][j][1]
    /\ (/\ Done("sync") /\ attempts["sync"] = 4
        /\ \A i \in 1 .. 3 : Is429(server[i])
        /\ IsGood200(server[4]))
       => AllSleeps("sync") = <<2, 3, 5>> /\ Returned("sync")

\* The case of C3: 429, 429, 429, then 200, and the call has returned
C3_Witness ==
    /\ Done("sync") /\ attempts["sync"] = 4
    /\ \A i \in 1 .. 3 : Is429(server[i])
    /\ IsGood200(server[4])
    /\ Returned("sync")

\* The message of the failure client v ended with
MessageOf(v) == result[v].exc.msg

\* What the try block of client v's i-th attempt did
TryBlock(v, i) ==
    IF v = "sync" THEN XiangxinAI_try(max_retries, i - 1, request[v], server[i])
    ELSE AsyncXiangxinAI_try(request[v], server[i])

\* C4: in both clients, a status other than 200, 401, 422 and 429 ends the call on that
\* attempt with a generic XiangxinAIError carrying the status code, with no sleep and
\* no further attempt, whatever the remaining budget.
C4_OtherStatusEndsCall ==
    \A v \in Variants : \A i \in 1 .. attempts[v] :
        (server[i].kind = "response" /\ server[i].status \notin {200, 401, 422, 429})
        => /\ EndedOn(v, i)
           /\ Raised(v, "XiangxinAIError")
           /\ \E k \in 1 .. Len(MessageOf(v)) : MessageOf(v)[k] = StatusText(server[i].status)
           /\ sleeps[v][i] = <<>>

\* C5: in both clients, HTTP 401 ends the call on that attempt with AuthenticationError
\* and no sleep, so a 401 on the first attempt means exactly one HTTP attempt and no
\* backoff; and an authentication, validation or rate-limit failure raised inside an
\* attempt is what the call raises, on that attempt.
C5_AuthNeverRetried ==
    \A v \in Variants : \A i \in 1 .. attempts[v] :
        /\ (server[i].kind = "response" /\ server[i].status = 401)
           => /\ EndedOn(v, i)
              /\ Raised(v, "AuthenticationError")
              /\ sleeps[v][i] = <<>>
              /\ (i = 1 => attempts[v] = 1 /\ AllSleeps(v) = <<>>)
        /\ (/\ TryBlock(v, i).ctl = "raise"
            /\ TryBlock(v, i).exc.cls \in
                 {"AuthenticationError", "ValidationError", "RateLimitError"})
           => EndedOn(v, i) /\ result[v] = Result("raise", NoValue, TryBlock(v, i).exc)

\* The case of C5: both clients met 401 on the first attempt with retries left
C5_Witness ==
    /\ max_retries >= 1
    /\ Len(server) >= 1
    /\ server[1].status = 401
    /\ \A v \in Variants : EndedOn(v, 1) /\ Raised(v, "AuthenticationError")

\* C6: in both clients, every HTTP 422 ends the call on that attempt with the SDK's
\* ValidationError and no retry; its message is the body's detail field when the body
\* has one and a default text otherwise.
C6_ValidationNotRetried ==
    \A v \in Variants : \A i \in 1 .. attempts[v] :
        (server[i].kind = "response" /\ server[i].status = 422)
        => /\ EndedOn(v, i)
           /\ Raised(v, "ValidationError")
           /\ MessageOf(v) =
                <<"Validation error: ">>
                \o (IF server[i].body.shape = "dict" /\ "detail" \in DOMAIN server[i].body.value
                    THEN server[i].body.value.detail ELSE <<"Validation error">>)

\* C7: in both clients, a timeout or connection failure on attempt a < max_retries is
\* followed by a sleep of exactly 1 second and attempt a+1; on attempt a = max_retries
\* the call raises a generic XiangxinAIError whose message names the kind of failure.
C7_TransportRetry ==
    \A v \in Variants : \A i \in 1 .. attempts[v] :
        (server[i].kind \in {"timeout", "connection"})
        => IF i - 1 < max_retries
           THEN sleeps[v][i] = <<1>> /\ WentOn(v, i)
           ELSE /\ EndedOn(v, i)
                /\ Raised(v, "XiangxinAIError")
                /\ MessageOf(v) = IF server[i].kind = "timeout"
                                THEN <<"Request timeout">> ELSE <<"Connection error">>

\* The case of C7: a connection failure is retried and the last attempt times out
C7_Witness ==
    /\ max_retries >= 1
    /\ EndedOn("async", max_retries + 1)
    /\ Len(server) >= max_retries + 1
    /\ server[1].kind = "connection"
    /\ server[max_retries + 1].kind = "timeout"
    /\ sleeps["async"][1] = <<1>>
    /\ MessageOf("async") = <<"Request timeout">>

\* C8: in both clients, k <= max_retries retryable failures (429, timeout, connection,
\* in any mix) followed by a 200 with a well-formed body end with the call returning
\* the parsed success.
C8_TransientInvisible ==
    \A v \in Variants :
        \A k \in 0 .. max_retries :
            (/\ Done(v) /\ ReachedTransport(v)
             /\ Len(server) >= k + 1
             /\ \A i \in 1 .. k : IsTransient(server[i])
             /\ IsGood200(server[k + 1]))
            => Returned(v) /\ attempts[v] = k + 1

\* C9: for max_retries >= 0 a call that reaches the transport makes at most
\* max_retries + 1 HTTP attempts, each loop iteration being one attempt with budget
\* left while the call runs, and ends with exactly one of a returned value or a raised
\* subtype of XiangxinAIError.
C9_OneTypedOutcome ==
    \A v \in Variants :
        /\ attempts[v] <= max_retries + 1
        /\ (pc[v] = "running" /\ max_retries >= 0)
           => attempt[v] = attempts[v] /\ attempts[v] <= max_retries /\ result[v] = NoResult
        /\ (Done(v) /\ ReachedTransport(v) /\ max_retries >= 0)
           => /\ attempts[v] >= 1
              /\ \/ /\ result[v].kind = "return"
                    /\ result[v].value \notin {NoValue, PyNone}
                    /\ result[v].exc = NoExc
                 \/ /\ result[v].kind = "raise"
                    /\ IsSDKError(result[v].exc.cls)
                    /\ result[v].value = NoValue

\* The case of C9: both clients use the whole budget and end with a typed failure
C9_Witness ==
    /\ max_retries >= 2
    /\ EndedOn("sync", max_retries + 1) /\ Raised("sync", "XiangxinAIError")
    /\ EndedOn("async", max_retries + 1) /\ Raised("async", "XiangxinAIError")

(***************************************************************************)
(* C10: the short circuit of check_prompt                                  *)
(***************************************************************************)
\* None, empty, or nothing but whitespace
Blank(text) == text.none \/ \A i \in 1 .. Len(text.chars) : text.chars[i] = " "

\* The canonical safe default as the specification words it
IsSafeDefault(r) ==
    /\ r.kind = "return"
    /\ r.value.type = "GuardrailResponse"
    /\ r.value.id = "guardrails-safe-default"
    /\ r.value.overall_risk_level = "no_risk"
    /\ r.value.suggest_action = "pass"
    /\ r.value.suggest_answer = None
    /\ r.value.result.compliance.categories = <<>>
    /\ r.value.result.security.categories = <<>>
    /\ r.value.result.data = None \/ r.value.result.data.categories = <<>>

\* C10: in both clients, check_prompt with None, empty or whitespace-only content
\* returns the canonical safe default and makes no network call.
C10_BlankPromptSafeDefault ==
    \A v \in Variants :
        (Done(v) /\ call.op = "check_prompt" /\ Blank(call.content))
        => IsSafeDefault(result[v]) /\ attempts[v] = 0 /\ ~ReachedTransport(v)

(***************************************************************************)
(* C11..C13: check_conversation                                            *)
(***************************************************************************)
\* The entry is a mapping that has a role and a content
HasRoleAndContent(msg) ==
    msg.isdict /\ "role" \in DOMAIN msg.fields /\ "content" \in DOMAIN msg.fields

\* A non-empty list of mappings, each with one of the three roles and a content
WellFormed(msgs) ==
    /\ msgs # <<>>
    /\ \A i \in 1 .. Len(msgs) :
          HasRoleAndContent(msgs[i]) /\ msgs[i].fields.role \in {"user", "system", "assistant"}

NonBlank(msg) == ~Blank(msg.fields.content)

\* The messages of the list whose trimmed content is not empty, in their order,
\* as they stand on the wire (role, trimmed content)
RECURSIVE Forwarded(_)
Forwarded(msgs) ==
    IF msgs = <<>> THEN <<>>
    ELSE IF NonBlank(Head(msgs))
         THEN <<[role |-> Head(msgs).fields.role,
                 content |-> strip(Head(msgs).fields.content.chars)]>>
              \o Forwarded(Tail(msgs))
         ELSE Forwarded(Tail(msgs))

\* C11: in both clients, check_conversation on a non-empty well-formed list returns the
\* canonical safe default with no network call when every message's trimmed content is
\* empty, and otherwise issues one POST to /guardrails whose messages are the input
\* messages with non-empty trimmed content, in their original order, never an empty list.
C11_ConversationFiltering ==
    \A v \in Variants :
        (Done(v) /\ call.op = "check_conversation" /\ WellFormed(call.messages))
        => IF \A i \in 1 .. Len(call.messages) : ~NonBlank(call.messages[i])
           THEN IsSafeDefault(result[v]) /\ attempts[v] = 0 /\ ~ReachedTransport(v)
           ELSE /\ ReachedTransport(v) /\ (max_retries >= 0 => attempts[v] >= 1)
                /\ request[v].method = "POST" /\ request[v].endpoint = "/guardrails"
                /\ request[v].data.messages = Forwarded(call.messages)
                /\ request[v].data.messages # <<>>

\* Some entry of the list is no mapping, or lacks role or content
SomeMalformed(msgs) == \E i \in 1 .. Len(msgs) : ~HasRoleAndContent(msgs[i])

\* C12: in both clients, check_conversation with an empty list, or with a list in which
\* any entry (at any position, whatever the other entries) is no mapping or lacks role
\* or content, raises the SDK ValidationError and makes no network call.
C12_MalformedListRejected ==
    \A v \in Variants :
        (/\ Done(v) /\ call.op = "check_conversation"
         /\ (call.messages = <<>> \/ SomeMalformed(call.messages)))
        => Raised(v, "ValidationError") /\ attempts[v] = 0 /\ ~ReachedTransport(v)

\* Some message of the list has a role outside user, system, assistant
SomeUnknownRole(msgs) ==
    \E i \in 1 .. Len(msgs) :
        /\ msgs[i].isdict /\ "role" \in DOMAIN msgs[i].fields
        /\ msgs[i].fields.role \notin {"user", "system", "assistant"}

\* C13: in both clients, check_conversation with a list in which any message has a role
\* outside user, system, assistant raises the SDK ValidationError (the type the SDK
\* raises for bad input) and makes no network call, whatever that message's content and
\* whatever the other messages are.
C13_UnknownRoleRejected ==
    \A v \in Variants :
        (Done(v) /\ call.op = "check_conversation" /\ SomeUnknownRole(call.messages))
        => Raised(v, "ValidationError") /\ attempts[v] = 0 /\ ~ReachedTransport(v)

(***************************************************************************)
(* C14: check_response_ctx                                                 *)
(***************************************************************************)
\* The text with leading and trailing whitespace removed, None counting as empty
Trimmed(text) == IF text.none THEN <<>> ELSE strip(text.chars)

\* C14: in both clients, check_response_ctx returns the canonical safe default with no
\* network call when the trimmed prompt and the trimmed response are both empty, and
\* otherwise issues one POST to /guardrails/output whose body has input = the trimmed
\* prompt and output = the trimmed response (either may be empty) and no messages field.
C14_ResponseCtxPayload ==
    \A v \in Variants :
        (Done(v) /\ call.op = "check_response_ctx")
        => IF Trimmed(call.prompt) = <<>> /\ Trimmed(call.response) = <<>>
           THEN IsSafeDefault(result[v]) /\ attempts[v] = 0 /\ ~ReachedTransport(v)
           ELSE /\ ReachedTransport(v) /\ (max_retries >= 0 => attempts[v] >= 1)
                /\ request[v].method = "POST"
                /\ request[v].endpoint = "/guardrails/output"
                /\ request[v].data.input = Trimmed(call.prompt)
                /\ request[v].data.output = Trimmed(call.response)
                /\ "messages" \notin DOMAIN request[v].data

(***************************************************************************)
(* C15..C18: the caller's identifier, and the image checks                 *)
(***************************************************************************)
CheckOperations ==
    {"check_prompt", "check_conversation", "check_response_ctx",
     "check_prompt_image", "check_prompt_images"}

ImagesOf(c) ==
    IF c.op = "check_prompt_image"
    THEN (IF c.image.none \/ c.image.chars = <<>> THEN <<>> ELSE <<c.image.chars>>)
    ELSE (IF c.images.none THEN <<>> ELSE c.images.items)

IsLink(path) == path # <<>> /\ path[1] \in {"http://", "https://"}

\* The file exists on the machine
Exists(path) == \E f \in Disk : f.path = path

\* The image can be read or fetched
Resolves(path) ==
    IF IsLink(path) THEN \E w \in Web : w.url = path /\ w.ok
    ELSE \E f \in Disk : f.path = path /\ f.readable

BytesOf(path) ==
    IF IsLink(path) THEN (CHOOSE w \in Web : w.url = path).content
    ELSE (CHOOSE f \in Disk : f.path = path).bytes

\* The parts of the one user message: the trimmed prompt when it is not empty,
\* then one image_url part per image, in order
ExpectedParts(prompt, images) ==
    (IF Trimmed(prompt) = <<>> THEN <<>> ELSE <<[type |-> "text", text |-> Trimmed(prompt)]>>)
    \o [i \in 1 .. Len(images) |->
          [type |-> "image_url",
           image_url |-> [url |-> <<"data:image/jpeg;base64,">> \o b64encode(BytesOf(images[i]))]]]

\* C16: in both clients, an image check (single or multiple, a single image being a list
\* of one) whose images all resolve issues one POST to /guardrails carrying exactly one
\* user message, whose content is the text part with the trimmed prompt if and only if
\* that is not empty, followed by one image_url part per image in input order.
C16_ImageWireShape ==
    \A v \in Variants :
        (/\ Done(v) /\ call.op \in {"check_prompt_image", "check_prompt_images"}
         /\ ImagesOf(call) # <<>>
         /\ \A i \in 1 .. Len(ImagesOf(call)) : Resolves(ImagesOf(call)[i]))
        => /\ ReachedTransport(v)
           /\ request[v].method = "POST" /\ request[v].endpoint = "/guardrails"
           /\ Len(request[v].data.messages) = 1
           /\ request[v].data.messages[1].role = "user"
           /\ request[v].data.messages[1].content = ExpectedParts(call.prompt, ImagesOf(call))

\* C17: in both clients, an image check with an empty image argument (no image, an empty
\* path, no list, an empty list) raises the SDK ValidationError before any file is read,
\* any url fetched, any session made and any guardrail request issued.
C17_EmptyImageRejectedFirst ==
    \A v \in Variants :
        (/\ Done(v) /\ call.op \in {"check_prompt_image", "check_prompt_images"}
         /\ ImagesOf(call) = <<>>)
        => /\ Raised(v, "ValidationError")
           /\ io[v] = <<>>
           /\ v = "async" => session[v] = "none"
           /\ attempts[v] = 0 /\ ~ReachedTransport(v)

\* The case of C17: both clients have rejected an empty list of images
C17_Witness ==
    /\ call.op = "check_prompt_images" /\ ~call.images.none /\ call.images.items = <<>>
    /\ \A v \in Variants : Done(v) /\ Raised(v, "ValidationError")

\* The images up to and including the first that cannot be read or fetched
RECURSIVE UpToFirstFailure(_)
UpToFirstFailure(images) ==
    IF images = <<>> THEN <<>>
    ELSE IF Resolves(Head(images)) THEN <<Head(images)>> \o UpToFirstFailure(Tail(images))
         ELSE <<Head(images)>>

\* C18: in both clients, when the image an image check stops at is a local path that does
\* not exist, the call raises the SDK ValidationError naming that path; when it is an
\* http(s) link whose fetch fails, the call raises XiangxinAIError itself, not
\* ValidationError; in both cases no request is sent to /guardrails.
C18_UnresolvableImage ==
    \A v \in Variants :
        (/\ Done(v) /\ call.op \in {"check_prompt_image", "check_prompt_images"}
         /\ ImagesOf(call) # <<>>)
        => LET tried == UpToFirstFailure(ImagesOf(call))
               last == tried[Len(tried)]
           IN  /\ (~IsLink(last) /\ ~Exists(last))
                  => /\ Raised(v, "ValidationError")
                     /\ MessageOf(v) = <<"Image file not found: ">> \o last
                     /\ attempts[v] = 0 /\ ~ReachedTransport(v)
               /\ (IsLink(last) /\ ~Resolves(last))
                  => /\ Raised(v, "XiangxinAIError")
                     /\ attempts[v] = 0 /\ ~ReachedTransport(v)

\* The case of C18: both clients were given a readable file and then a link
\* that is gone, and have ended with the generic failure
C18_Witness ==
    /\ call.op = "check_prompt_images"
    /\ ImagesOf(call) = <<(<<"/tmp/", "a.jpg">>), (<<"http://", "cdn.example", "/gone.jpg">>)>>
    /\ \A v \in Variants : Done(v) /\ Raised(v, "XiangxinAIError")

(***************************************************************************)
(* C19, C20: the classification of a 200, and unexpected exceptions        *)
(***************************************************************************)
\* Client v's call returned from an attempt that the server answered with 200
ReturnedOn200(v) ==
    /\ Done(v) /\ Returned(v) /\ attempts[v] >= 1
    /\ server[attempts[v]].kind = "response" /\ server[attempts[v]].status = 200

\* The decoded body as it is handed back untyped
Decoded(body) == [type |-> "json", shape |-> body.shape, value |-> body.value]

\* C19: in both clients, on HTTP 200 a call to /guardrails, /guardrails/input or
\* /guardrails/output returns a typed GuardrailResponse, and a call to /guardrails/health
\* or /guardrails/models returns the decoded body unchanged and never a GuardrailResponse.
C19_TypedOnlyForDetection ==
    \A v \in Variants :
        ReturnedOn200(v)
        => IF request[v].endpoint \in {"/guardrails", "/guardrails/input", "/guardrails/output"}
           THEN result[v].value.type = "GuardrailResponse"
           ELSE /\ request[v].endpoint \in {"/guardrails/health", "/guardrails/models"}
                /\ result[v].value = Decoded(server[attempts[v]].body)
                /\ result[v].value.type # "GuardrailResponse"

\* The i-th attempt of client v met something no branch expects: the transport raised
\* an error that is neither a timeout nor a connection error, a 200 body from a detection
\* endpoint lacks required GuardrailResponse fields, or a 422 body is no JSON
Unexpected(v, i) ==
    \/ server[i].kind = "unexpected"
    \/ /\ server[i] = Response(200, PartialBody)
       /\ request[v].endpoint \in {"/guardrails", "/guardrails/input", "/guardrails/output"}
    \/ server[i] = Response(422, TextBody)

\* C20: in both clients, an unexpected exception during an attempt, the data-shape error
\* of a 200 body without the required fields included, is followed by a sleep of exactly
\* 1 second and the next attempt while attempt < max_retries; on the last attempt the call
\* raises XiangxinAIError itself with "Unexpected error: " and the underlying message; and
\* no call that reached _make_request ends with an exception that is not an SDK error.
C20_UnexpectedRetriedThenWrapped ==
    /\ \A v \in Variants : \A i \in 1 .. attempts[v] :
          Unexpected(v, i)
          => IF i - 1 < max_retries
             THEN sleeps[v][i] = <<1>> /\ WentOn(v, i)
             ELSE /\ EndedOn(v, i) /\ Raised(v, "XiangxinAIError")
                  /\ MessageOf(v) = <<"Unexpected error: ">> \o TryBlock(v, i).exc.msg
    /\ \A v \in Variants :
          (Done(v) /\ ReachedTransport(v) /\ result[v].kind = "raise")
          => result[v].exc.cls \in
                {"XiangxinAIError", "AuthenticationError", "RateLimitError",
                 "ValidationError", "NetworkError", "ServerError"}

\* The case of C20: a detection call met a 200 body without the required fields on each
\* of its three attempts, slept 1 second twice, and ended with the generic failure
C20_Witness ==
    /\ max_retries = 2 /\ call.op = "check_prompt"
    /\ Done("sync") /\ attempts["sync"] = 3
    /\ \A i \in 1 .. 3 : server[i] = Response(200, PartialBody)
    /\ AllSleeps("sync") = <<1, 1>>
    /\ Raised("sync", "XiangxinAIError")

(***************************************************************************)
(* C21: release of the session                                             *)
(***************************************************************************)
\* C21: in both clients a release (close, leaving the with scope) changes nothing but the
\* session and raises nothing: an open session becomes closed, and a session that was
\* never made (AsyncXiangxinAI) or is already closed stays as it is.
C21_ReleaseIdempotent ==
    [][\A v \in Variants :
          lifecycle'[v] = Append(lifecycle[v], "release")
          => /\ session'[v] = IF session[v] = "open" THEN "closed" ELSE session[v]
             /\ \A w \in Variants \ {v} : session'[w] = session[w]
             /\ pc' = pc /\ result' = result /\ request' = request
             /\ attempts' = attempts /\ io' = io]_vars

\* The case of C21: the cooperative client made a session for a call, was closed,
\* and was closed again
C21_Witness ==
    /\ lifecycle["async"] = <<"create", "release", "release">>
    /\ session["async"] = "closed"
    /\ session["sync"] = "closed"

\* close() has completed on client v at least once
Closed(v) == \E k \in 1 .. Len(lifecycle[v]) : lifecycle[v][k] = "release"

RECURSIVE Alone(_, _, _, _, _)
Alone(mr, req, met, a, slept) ==
    IF ~(a < mr + 1)
    THEN [sleeps |-> slept, result |-> ResultOf(Return(PyNone)), used |-> a]
    ELSE IF a + 1 > Len(met)
         THEN [sleeps |-> slept, result |-> NoResult, used |-> a]
         ELSE LET eff == AsyncXiangxinAI_iteration(mr, a, req, met[a + 1])
              IN  IF eff.ctl = "continue"
                  THEN Alone(mr, req, met, a + 1, Append(slept, eff.sleeps))
                  ELSE [sleeps |-> Append(slept, eff.sleeps), result |-> ResultOf(eff),
                        used |-> a + 1]

\* C22: two concurrent calls on one AsyncXiangxinAI are independent: in every interleaving,
\* a call that has ended made one attempt per outcome it met (nothing is shared or
\* coalesced), and its sleeps and its result are those of the same call running alone
\* against the outcomes of its own attempts.
C22_ConcurrentCallsIndependent ==
    \A t \in Tasks :
        task # <<>> /\ task[t].pc = "done"
        => LET alone == Alone(max_retries, task[t].request, task[t].met, 0, <<>>)
           IN  /\ alone.used = Len(task[t].met)
               /\ task[t].sleeps = alone.sleeps
               /\ task[t].result = alone.result
               /\ max_retries >= 0 => Len(task[t].met) >= 1

\* The case of C22: both calls have ended, one after a timeout and a success, the
\* other on its first attempt
C22_Witness ==
    /\ task # <<>>
    /\ task[1].pc = "done" /\ task[2].pc = "done"
    /\ task[1].met = <<TransportFailure("timeout"), Response(200, GoodBody)>>
    /\ task[2].met = <<Response(429, DetailBody)>>
    /\ task[1].result.kind = "return" /\ task[2].result.kind = "raise"

\* The sessions client v has made
SessionsMade(v) == Len(SelectSeq(lifecycle[v], LAMBDA e : e = "create"))

\* C23: one AsyncXiangxinAI holds at most one open session: in every interleaving of
\* concurrent first calls the session is made exactly once, by the first call to enter,
\* and every call that has entered runs on it.
C23_OneSessionForAll ==
    task # <<>>
    => /\ SessionsMade("async") <= 1
       /\ (\E t \in Tasks : task[t].pc # "idle")
          => SessionsMade("async") = 1 /\ session["async"] = "open"

\* The case of C23: both calls are inside _make_request and one session was made
C23_Witness ==
    /\ task # <<>>
    /\ \A t \in Tasks : task[t].pc = "running" /\ task[t].met # <<>>
    /\ lifecycle["async"] = <<"create">>

(***************************************************************************)
(* The derived views of a GuardrailResponse (models.py)                    *)
(***************************************************************************)
MaxCategories == 2

\* GuardrailResponse.is_safe
is_safe(r) == r.suggest_action = "pass"

\* GuardrailResponse.is_blocked
is_blocked(r) == r.suggest_action = "reject"

\* GuardrailResponse.has_substitute
has_substitute(r) == r.suggest_action = "replace" \/ r.suggest_action = "reject"

\* The labels of a list
Labels(list) == {list[k] : k \in 1 .. Len(list)}

\* list(set(categories)): the labels of the list once each, in an order the
\* source does not fix
list_set(list) ==
    {q \in SeqsUpTo(Labels(list), Cardinality(Labels(list))) :
        Len(q) = Cardinality(Labels(list)) /\ Labels(q) = Labels(list)}

\* An all_categories that forgets the data categories
all_categories_two(r) ==
    list_set(r.result.compliance.categories \o r.result.security.categories)

\* GuardrailResponse.all_categories: every list it may return
all_categories(r) ==
    LET categories == r.result.compliance.categories \o r.result.security.categories
    IN  IF "data" \in DOMAIN r.result
        THEN list_set(categories \o r.result.data.categories)
        ELSE list_set(categories)

\* A caller reads one derived view of the response it holds
ReadView(name, values) ==
    /\ call.op = "views"
    /\ \E value \in values : view' = [type |-> "view", name |-> name, value |-> value]
    /\ UNCHANGED <<max_retries, call, outcomes, server, pc, request, attempt, attempts,
                   sleeps, result, session, io, lifecycle, task>>

GuardrailResponse_is_safe == ReadView("is_safe", {is_safe(call.response)})

GuardrailResponse_is_blocked == ReadView("is_blocked", {is_blocked(call.response)})

GuardrailResponse_has_substitute ==
    ReadView("has_substitute", {has_substitute(call.response)})

GuardrailResponse_all_categories ==
    ReadView("all_categories", all_categories(call.response))

\* The detection bodies a server can answer with: category lists of the three
\* results, with and without a data result, every action, with and without an answer
\* (an empty answer included)
ViewBodies ==
    {[id |-> "guardrails-1",
      result |-> res,
      overall_risk_level |-> "high_risk",
      suggest_action |-> action,
      suggest_answer |-> answer] :
        res \in {[compliance |-> [risk_level |-> "high_risk", categories |-> c],
                  security |-> [risk_level |-> "no_risk", categories |-> s]] :
                     c \in SeqsUpTo({"A", "B"}, MaxCategories),
                     s \in SeqsUpTo({"B", "C"}, MaxCategories)}
             \cup {[compliance |-> [risk_level |-> "high_risk", categories |-> c],
                    security |-> [risk_level |-> "no_risk", categories |-> s],
                    data |-> [risk_level |-> "low_risk", categories |-> d]] :
                     c \in SeqsUpTo({"A", "B"}, MaxCategories),
                     s \in SeqsUpTo({"B", "C"}, MaxCategories),
                     d \in {<<>>, <<"C">>, <<"D">>}},
        action \in {"pass", "reject", "replace"},
        answer \in {None, Str(<<>>), Str(<<"a">>)}}

InitViews ==
    /\ max_retries = 0
    /\ call \in {[op |-> "views", response |-> GuardrailResponse(body).value] :
                    body \in ViewBodies}
    /\ outcomes = "brief"
    /\ InitClients

NextViews ==
    \/ GuardrailResponse_is_safe
    \/ GuardrailResponse_is_blocked
    \/ GuardrailResponse_has_substitute
    \/ GuardrailResponse_all_categories

SpecViews == InitViews /\ [][NextViews]_vars

\* The response whose views are read
Held == call.response

\* The view last read is the one named
Read(name) == view # NoValue /\ view.name = name

\* C24: all_categories is, as a set, exactly the union of the compliance, the security
\* and (when a data result is present) the data categories, and no label is in it twice.
C24_AllCategoriesIsUnion ==
    (call.op = "views" /\ Read("all_categories"))
    => /\ Labels(view.value)
            = Labels(Held.result.compliance.categories)
              \cup Labels(Held.result.security.categories)
              \cup (IF "data" \in DOMAIN Held.result
                    THEN Labels(Held.result.data.categories) ELSE {})
       /\ \A i, j \in 1 .. Len(view.value) : view.value[i] = view.value[j] => i = j

\* The example of C24 ({A, B} and {B, C}, no data result) and a response whose only
\* D comes from its data result
C24_Witness ==
    /\ call.op = "views" /\ Read("all_categories")
    /\ Held.result.compliance.categories = <<"A", "B">>
    /\ Held.result.security.categories = <<"B", "C">>
    /\ "data" \notin DOMAIN Held.result
    /\ view.value = <<"C", "A", "B">>

\* C25: has_substitute is true exactly when suggest_answer is present, is_safe exactly
\* when the action is pass, and is_blocked exactly when the action is reject.
C25_ViewsOfActionAndAnswer ==
    call.op = "views"
    => /\ Read("has_substitute") => (view.value <=> Held.suggest_answer # None)
       /\ Read("is_safe") => (view.value <=> Held.suggest_action = "pass")
       /\ Read("is_blocked") => (view.value <=> Held.suggest_action = "reject")

\* The two views of C25 that the source computes from the action: is_safe and is_blocked
C25_ActionViews ==
    call.op = "views"
    => /\ Read("is_safe") => (view.value <=> Held.suggest_action = "pass")
       /\ Read("is_blocked") => (view.value <=> Held.suggest_action = "reject")

(***************************************************************************)
(* The encoding of one image, for every image data of the bound, from a    *)
(* file and from a page                                                    *)
(***************************************************************************)
EncodeCall(image_path) == [op |-> "encode", image |-> image_path]

\* image_base64 = self._encode_base64_from_path(image) and the content part made
\* of it: the result of the encoding is kept in result, the part in view
encode_image(v) ==
    /\ MayStart(v)
    /\ call.op = "encode"
    /\ LET enc == encode_base64_from_path(v, call.image)
           log == <<Access(call.image)>>
       IN  /\ pc' = [pc EXCEPT ![v] = "done"]
           /\ result' = [result EXCEPT ![v] = ResultOf(enc)]
           /\ io' = [io EXCEPT ![v] = @ \o log]
           /\ session' = [session EXCEPT ![v] = SessionAfter(v, @, log)]
           /\ lifecycle' = [lifecycle EXCEPT ![v] = Made(session[v], session'[v], @)]
           /\ view' = IF enc.ctl = "raise" THEN NoValue ELSE ImagePart(enc.value.b64)
    /\ UNCHANGED <<max_retries, call, outcomes, server, request, attempt, attempts, sleeps,
                   task>>

\* XiangxinAI._encode_base64_from_path
XiangxinAI_encode_base64_from_path == encode_image("sync")

\* AsyncXiangxinAI._encode_base64_from_path_async
AsyncXiangxinAI_encode_base64_from_path_async == encode_image("async")

InitEncode ==
    /\ max_retries = 0
    /\ call \in {EncodeCall(f.path) : f \in Disk} \cup {EncodeCall(w.url) : w \in Web}
                \cup {EncodeCall(<<"/tmp/", "missing.jpg">>)}
    /\ outcomes = "brief"
    /\ InitClients

NextEncode ==
    \/ XiangxinAI_encode_base64_from_path
    \/ AsyncXiangxinAI_encode_base64_from_path_async

SpecEncode == InitEncode /\ [][NextEncode]_vars

\* The place of a character in the base64 alphabet, from 0
B64Index(c) == CHOOSE i \in 0 .. 63 : B64Alphabet[i + 1] = c

\* The bytes a base64 text stands for
RECURSIVE b64decode(_)
b64decode(text) ==
    IF Len(text) < 4 THEN <<>>
    ELSE LET i1 == B64Index(text[1])
             i2 == B64Index(text[2])
         IN  IF text[3] = "=" THEN <<i1 * 4 + i2 \div 16>>
             ELSE LET i3 == B64Index(text[3])
                  IN  IF text[4] = "="
                      THEN <<i1 * 4 + i2 \div 16, (i2 % 16) * 16 + i3 \div 4>>
                      ELSE <<i1 * 4 + i2 \div 16, (i2 % 16) * 16 + i3 \div 4,
                             (i3 % 4) * 64 + B64Index(text[4])>>
                           \o b64decode(SubSeq(text, 5, Len(text)))

\* The characters of a base64 text: the alphabet, and "=" in the last two places only
IsBase64(text) ==
    /\ Len(text) % 4 = 0
    /\ \A k \in 1 .. Len(text) :
          \/ \E i \in 1 .. 64 : B64Alphabet[i] = text[k]
          \/ text[k] = "=" /\ k >= Len(text) - 1 /\ (k = Len(text) - 1 => text[Len(text)] = "=")

HostOf(url) == url[2]

\* C27: the bearer credential goes only to the configured base address: a GET of a remote
\* image on another host carries no Authorization header, in either client.
C27_CredentialOnlyToBaseUrl ==
    \A v \in Variants : \A k \in 1 .. Len(io[v]) :
        (io[v][k].op = "get" /\ HostOf(io[v][k].path) # HostOf(BaseUrl))
        => "Authorization" \notin io[v][k].headers

\* The budget of attempts of a call under max_retries
Budget == IF max_retries + 1 > 0 THEN max_retries + 1 ELSE 0

\* A failure the engine answers with a retry and a sleep of one second
IsRetriedFailure(o) == o.kind \in {"timeout", "connection", "unexpected"}

\* C28: the retry budget of XiangxinAI._make_request is one attempt counter for all
\* failure kinds: whatever the mix of 429, timeout, connection and unexpected failures,
\* a call never makes more than max_retries + 1 HTTP attempts, a retried failure on
\* the last attempt of the budget ends the call with a failure, and a 429 on attempt a
\* (0-based, a < max_retries) sleeps 2^a + 1 seconds, a counting every earlier attempt
\* of the call whatever its kind.
C28_OneCounterForAllFailures ==
    /\ \A v \in Variants : attempts[v] <= Budget /\ attempt[v] <= Budget
    /\ \A i \in 1 .. attempts["sync"] :
          /\ (Is429(server[i]) /\ i - 1 < max_retries)
             => sleeps["sync"][i] = <<2 ^ (i - 1) + 1>> /\ WentOn("sync", i)
          /\ (IsRetriedFailure(server[i]) /\ i - 1 < max_retries)
             => sleeps["sync"][i] = <<1>> /\ WentOn("sync", i)
          /\ ((Is429(server[i]) \/ IsRetriedFailure(server[i])) /\ i = Budget)
             => EndedOn("sync", i) /\ result["sync"].kind = "raise"

\* The case of C28: a timeout, an unexpected failure, then the first 429 of the call on
\* attempt 2, which sleeps 5 seconds, and a connection failure that uses up the budget
C28_Witness ==
    /\ max_retries = 3
    /\ Done("sync") /\ attempts["sync"] = 4
    /\ server[1].kind = "timeout" /\ server[2].kind = "unexpected"
    /\ Is429(server[3]) /\ server[4].kind = "connection"
    /\ sleeps["sync"] = <<<<1>>, <<1>>, <<5>>, <<>>>>
    /\ Raised("sync", "XiangxinAIError")

\* C29: for every integer max_retries the constructor accepts (zero and negative values
\* included), a check call that passed input validation and has ended made at least one
\* HTTP attempt and did not return None.
C29_AtLeastOneAttempt ==
    \A v \in Variants :
        (call.op = "check_prompt" /\ Done(v) /\ ReachedTransport(v))
        => /\ attempts[v] >= 1
           /\ ~(Returned(v) /\ result[v].value = PyNone)

\* The part of C29 that holds: under a budget of zero retries or more
C29_NonNegativeBudget ==
    \A v \in Variants :
        (call.op = "check_prompt" /\ Done(v) /\ ReachedTransport(v) /\ max_retries >= 0)
        => /\ attempts[v] >= 1
           /\ ~(Returned(v) /\ result[v].value = PyNone)

(***************************************************************************)
(* C31: close() while a call is in flight                                  *)
(***************************************************************************)
\* The session coroutine t captured has been closed
HeldClosed(t) ==
    /\ task[t].captured >= 1
    /\ \/ task[t].captured < SessionsMade("async")
       \/ session["async"] = "closed"

\* The attempt met a closed session
OnClosed(o) == o.kind = "closed"

\* C31: when close() on an AsyncXiangxinAI lands on a call in flight, the call keeps the
\* session it captured before its loop: every attempt it makes from then on fails on the
\* closed session, also when another call has made the client a new session meanwhile;
\* no step of the call makes or reopens a session; the call uses up its budget of
\* max_retries + 1 attempts and ends with a failure of the SDK; and a running call
\* always ends.
C31_CloseInFlight ==
    /\ [](\A t \in Tasks :
            /\ \A j, k \in 1 .. Len(task[t].met) :
                  (j < k /\ OnClosed(task[t].met[j])) => OnClosed(task[t].met[k])
            /\ (task[t].pc = "done" /\ \E j \in 1 .. Len(task[t].met) : OnClosed(task[t].met[j]))
               => /\ task[t].result.kind = "raise"
                  /\ IsSDKError(task[t].result.exc.cls)
                  /\ Len(task[t].met) = max_retries + 1)
    /\ [][\A t \in Tasks :
            (task[t].pc = "running" /\ task'[t] # task[t])
            => /\ session' = session
               /\ lifecycle' = lifecycle
               /\ task'[t].captured = task[t].captured
               /\ (HeldClosed(t) /\ Len(task'[t].met) > Len(task[t].met))
                  => OnClosed(task'[t].met[Len(task'[t].met)])]_vars
    /\ \A t \in Tasks : (task[t].pc = "running") ~> (task[t].pc = "done")

\* The case of C31: call 1 met a timeout, close() came during its sleep, its second and
\* last attempt failed on the closed session and it raised XiangxinAIError; call 2
\* started after the close on a new session and returned
C31_Witness ==
    /\ max_retries = 1
    /\ task[1].pc = "done" /\ task[2].pc = "done"
    /\ task[1].met = <<TransportFailure("timeout"), TransportFailure("closed")>>
    /\ task[1].result.kind = "raise"
    /\ task[1].result.exc
         = Exc("XiangxinAIError", <<"Unexpected error: ", "Session is closed">>)
    /\ task[2].met = <<Response(200, GoodBody)>>
    /\ task[2].result.kind = "return"
    /\ lifecycle["async"] = <<"create", "release", "create">>
    /\ session["async"] = "open"

(***************************************************************************)
(* C32: the images of check_prompt_images are resolved one after another   *)
(***************************************************************************)
\* The message holds the path, fragment for fragment
Names(msg, path) ==
    \E i \in 1 .. Len(msg) :
        i + Len(path) - 1 <= Len(msg) /\ SubSeq(msg, i, i + Len(path) - 1) = path

\* The paths client v opened or fetched, in order
Touched(v) == [k \in 1 .. Len(io[v]) |-> io[v][k].path]

\* C32: in both clients, check_prompt_images with an image that cannot be read or fetched
\* has touched, in input order, exactly the images up to and including the first such
\* image and none after it, has raised an SDK failure whose message names that image,
\* and has sent no request to /guardrails.
C32_StopsAtFirstFailure ==
    \A v \in Variants :
        (/\ Done(v) /\ call.op = "check_prompt_images"
         /\ \E i \in 1 .. Len(ImagesOf(call)) : ~Resolves(ImagesOf(call)[i]))
        => LET tried == UpToFirstFailure(ImagesOf(call))
           IN  /\ Touched(v) = tried
               /\ result[v].kind = "raise"
               /\ IsSDKError(result[v].exc.cls)
               /\ Names(MessageOf(v), tried[Len(tried)])
               /\ \A i \in 1 .. Len(ImagesOf(call)) :
                     (ImagesOf(call)[i] # tried[Len(tried)] /\ i >= Len(tried))
                     => ~Names(MessageOf(v), ImagesOf(call)[i])
               /\ attempts[v] = 0 /\ ~ReachedTransport(v)

\* The case of C32: a page that is served, then a file that does not exist: both
\* clients fetched the page, tried the file and stopped
C32_Witness ==
    /\ call.op = "check_prompt_images"
    /\ ImagesOf(call) = <<(<<"https://", "cdn.example", "/a.gif">>), (<<"/tmp/", "missing.jpg">>)>>
    /\ \A v \in Variants :
          /\ Done(v) /\ Raised(v, "ValidationError")
          /\ Touched(v) = ImagesOf(call)

(***************************************************************************)
(* C33: what a call that ends before _make_request leaves alone            *)
(***************************************************************************)
\* The messages of the input validation failures
InputValidationMessages ==
    {<<"Messages cannot be empty">>,
     <<"Each message must have 'role' and 'content' fields">>,
     <<"Image path cannot be empty">>,
     <<"Images list cannot be empty">>}

\* The outcome r is the safe default or an input validation failure
EndsEarly(r) ==
    \/ r.kind = "return" /\ r.value = AsyncXiangxinAI_create_safe_response.value
    \/ /\ r.kind = "raise" /\ r.exc.cls = "ValidationError"
       /\ r.exc.msg \in InputValidationMessages

\* C33: on AsyncXiangxinAI a call that returns the safe default or raises an input
\* validation failure (empty message list, entry without role or content, empty image
\* argument) makes no session and changes nothing the client holds: its session, never
\* made, open or closed, is what it was, no file is read, no url fetched, no request
\* issued; and no step of any operation of either client changes max_retries.
C33_EarlyEndLeavesClientUnchanged ==
    [][/\ max_retries' = max_retries
       /\ (/\ pc["async"] = "idle" /\ pc'["async"] = "done"
           /\ EndsEarly(result'["async"]))
          => /\ session' = session
             /\ lifecycle' = lifecycle
             /\ io' = io
             /\ request' = request
             /\ server' = server
             /\ attempts' = attempts /\ sleeps' = sleeps]_vars

\* The case of C33: an AsyncXiangxinAI closed by its caller was given an empty list of
\* messages, raised ValidationError and is still closed
C33_Witness ==
    /\ call.op = "check_conversation" /\ call.messages = <<>>
    /\ Done("async") /\ Raised("async", "ValidationError")
    /\ session["async"] = "closed"
    /\ lifecycle["async"] = <<"create", "release">>

\* The other case of C33: a blank prompt returned the safe default on a client that
\* never made a session
C33_SafeDefaultReached ==
    /\ call.op = "check_prompt"
    /\ Done("async") /\ Returned("async")
    /\ ~ReachedTransport("async")
    /\ session["async"] = "none"

(***************************************************************************)
(* C34: the safe default of the two clients                                *)
(***************************************************************************)
\* C34: the safe default is built anew by _create_safe_response at every short circuit,
\* and it is the same value in both clients: when XiangxinAI and AsyncXiangxinAI have
\* both short-circuited on the same blank prompt, both have returned, and what they
\* returned is equal field for field.
C34_SameSafeDefault ==
    (/\ call.op = "check_prompt" /\ Blank(call.content)
     /\ Done("sync") /\ Done("async"))
    => /\ Returned("sync") /\ Returned("async")
       /\ result["sync"].value = result["async"].value

\* The part of C34 that holds: the cooperative client returns the canonical safe default
\* from every short circuit, whatever was returned before
C34_AsyncDefault ==
    (call.op = "check_prompt" /\ Blank(call.content) /\ Done("async"))
    => /\ Returned("async")
       /\ result["async"].value = AsyncXiangxinAI_create_safe_response.value

====
